---------------------------- MODULE Spec2Model ----------------------------
(***************************************************************************)
(* A model of the requirement-audit core of the CCCTransfer counseling     *)
(* package (src/counseling): GE pattern selection, GE area matching and    *)
(* audit, major requirement audit, and transcript parsing.                 *)
(*                                                                         *)
(* Strings whose characters matter to the code (GE area codes, entry       *)
(* terms, names and codes that are sorted, split or joined) are sequences  *)
(* of one-character strings; strings that the code only compares for       *)
(* equality (logic names, dict keys) are TLA+ strings.                     *)
(* A Python dict is a function; d.get(k, default) is Get(d, k, default).   *)
(***************************************************************************)
EXTENDS Integers, Sequences, FiniteSets, TLC

VARIABLES
    pat,        \* last call of GEAuditEngine.determine_ge_pattern
    match,      \* last call of GEAuditEngine._course_matches_area
    disk,       \* the data files the loader reads
    geRules,    \* DataLoader._ge_rules: the cached GE rule tree (lazy)
    ge,         \* last call of GEAuditEngine.audit
    major,      \* last call of MajorAuditEngine._audit_requirement
    parsed,     \* last call of TranscriptParser.parse
    loader,     \* DataLoader._majors_cache, _raw_ge_cache and _ge_course_lookup
    majorAudit, \* last call of MajorAuditEngine.audit
    rec,        \* the CourseRecommendationEngine: its cache and its last call
    mt,         \* last call of MultiTargetEngine.analyze_targets
    disc        \* last call of the MajorDiscoveryEngine

vars == <<pat, match, disk, geRules, ge, major, parsed, loader, majorAudit, rec, mt,
          disc>>

----------------------------------------------------------------------------
(* Generic helpers                                                         *)

\* dict.get(k, default)
Get(d, k, default) == IF k \in DOMAIN d THEN d[k] ELSE default

\* the elements of a sequence
Range(s) == {s[i] : i \in 1..Len(s)}

\* all sequences over S of length at most n
SeqsUpTo(S, n) == UNION {[1..k -> S] : k \in 0..n}

\* all duplicate-free sequences over S of length at most n
InjSeqsUpTo(S, n) ==
    {s \in SeqsUpTo(S, n) : \A i, j \in 1..Len(s) : i # j => s[i] # s[j]}

\* str.startswith
StartsWith(s, prefix) ==
    /\ Len(prefix) <= Len(s)
    /\ SubSeq(s, 1, Len(prefix)) = prefix

----------------------------------------------------------------------------
(* Characters and str.lower()                                              *)

UpperChars ==
    <<"A", "B", "C", "D", "E", "F", "G", "H", "I", "J", "K", "L", "M",
      "N", "O", "P", "Q", "R", "S", "T", "U", "V", "W", "X", "Y", "Z">>
LowerChars ==
    <<"a", "b", "c", "d", "e", "f", "g", "h", "i", "j", "k", "l", "m",
      "n", "o", "p", "q", "r", "s", "t", "u", "v", "w", "x", "y", "z">>

\* one character of str.lower(): an upper-case letter maps to its lower-case
\* letter, every other character to itself
LowerChar(c) ==
    IF \E i \in 1..Len(UpperChars) : UpperChars[i] = c
    THEN LowerChars[CHOOSE i \in 1..Len(UpperChars) : UpperChars[i] = c]
    ELSE c

\* str.lower()
Lower(s) == [i \in 1..Len(s) |-> LowerChar(s[i])]

----------------------------------------------------------------------------
(* config.py                                                               *)

CAL_GETC_START_YEAR == 2025

\* academic_year_to_code
academic_year_to_code(year) == year - 1949

----------------------------------------------------------------------------
(* GEAuditEngine.determine_ge_pattern                                      *)

\* the mutant of determine_ge_pattern that compares the term as given
determine_ge_pattern_no_lower(entry_year, entry_term) ==
    IF entry_year > CAL_GETC_START_YEAR THEN "CalGETC"
    ELSE IF /\ entry_year = CAL_GETC_START_YEAR
            /\ entry_term \in {<<"f", "a", "l", "l">>, <<"w", "i", "n", "t", "e", "r">>}
         THEN "CalGETC"
         ELSE "IGETC"

determine_ge_pattern(entry_year, entry_term) ==
    IF entry_year > CAL_GETC_START_YEAR THEN "CalGETC"
    ELSE IF /\ entry_year = CAL_GETC_START_YEAR
            /\ Lower(entry_term) \in {<<"f", "a", "l", "l">>, <<"w", "i", "n", "t", "e", "r">>}
         THEN "CalGETC"
         ELSE "IGETC"

\* entry years run from CAL_GETC_START_YEAR - YearSpan to CAL_GETC_START_YEAR + YearSpan
YearSpan == 4

EntryYears == (CAL_GETC_START_YEAR - YearSpan)..(CAL_GETC_START_YEAR + YearSpan)

EntryTerms == {
    <<"F", "a", "l", "l">>, <<"f", "a", "l", "l">>, <<"F", "A", "L", "L">>,
    <<"f", "A", "l", "L">>, <<"F", "a", "l">>, <<"F", "a", "l", "l", "s">>,
    <<"W", "i", "n", "t", "e", "r">>, <<"w", "i", "n", "t", "e", "r">>,
    <<"W", "I", "N", "T", "E", "R">>,
    <<"S", "p", "r", "i", "n", "g">>, <<"s", "p", "r", "i", "n", "g">>,
    <<"S", "u", "m", "m", "e", "r">>, <<"S", "U", "M", "M", "E", "R">>,
    <<>> }

DetermineGePattern ==
    /\ pat.pc = "call"
    /\ pat' = [pc |-> "done", entry_year |-> pat.entry_year, entry_term |-> pat.entry_term,
               result |-> determine_ge_pattern(pat.entry_year, pat.entry_term)]
    /\ UNCHANGED <<match, disk, geRules, ge, major, parsed, loader, majorAudit, rec, mt, disc>>

\* C3: determine_ge_pattern returns CalGETC for every entry year after 2025,
\* CalGETC for entry year 2025 exactly when the term is Fall or Winter in any
\* letter case, and IGETC for every other year and term.
SameIgnoringCase(s, t) ==
    /\ Len(s) = Len(t)
    /\ \A i \in 1..Len(s) :
          \/ s[i] = t[i]
          \/ \E k \in 1..Len(UpperChars) :
                {s[i], t[i]} = {UpperChars[k], LowerChars[k]}

IsFallOrWinter(term) ==
    \/ SameIgnoringCase(term, <<"F", "a", "l", "l">>)
    \/ SameIgnoringCase(term, <<"W", "i", "n", "t", "e", "r">>)

C3_PatternRule ==
    pat.pc = "done" =>
        /\ pat.entry_year > 2025 => pat.result = "CalGETC"
        /\ pat.entry_year = 2025 =>
              (pat.result = "CalGETC" <=> IsFallOrWinter(pat.entry_term))
        /\ pat.entry_year < 2025 => pat.result = "IGETC"
        /\ pat.result \in {"CalGETC", "IGETC"}

C3_Witness ==
    /\ pat.pc = "done"
    /\ pat.entry_year = 2025
    /\ pat.entry_term = <<"W", "I", "N", "T", "E", "R">>
    /\ pat.result = "CalGETC"

----------------------------------------------------------------------------
(* GEAuditEngine._course_matches_area                                      *)

\* the loop over course_codes of the mutant that prefix-matches every area code
MatchLoopAnyLength(course_codes, area_code) ==
    \E i \in 1..Len(course_codes) :
        \/ course_codes[i] = area_code
        \/ StartsWith(course_codes[i], area_code)

\* the loop over course_codes, from index i on, with its two early returns
RECURSIVE MatchLoopFrom(_, _, _)
MatchLoopFrom(course_codes, area_code, i) ==
    IF i > Len(course_codes) THEN FALSE
    ELSE IF course_codes[i] = area_code THEN TRUE
    ELSE IF StartsWith(course_codes[i], area_code) /\ Len(area_code) = 1 THEN TRUE
    ELSE MatchLoopFrom(course_codes, area_code, i + 1)

MatchLoop(course_codes, area_code) == MatchLoopFrom(course_codes, area_code, 1)

\* getattr(course, ge_attr_key, [])
CourseAttr(course, ge_attr_key) == Get(course, ge_attr_key, <<>>)

_course_matches_area(course, area_code, ge_attr_key) ==
    MatchLoop(CourseAttr(course, ge_attr_key), area_code)

\* the area and subarea codes a match is asked for
GeCodes == {
    <<"4">>, <<"5">>, <<"4", "H">>, <<"5", "A">>, <<"5", "B">>, <<"5", "1">>,
    <<"5", "A", "L">> }

\* the GE tags of a course
TagCodes == {<<"4">>, <<"4", "H">>, <<"5", "A">>, <<"5", "B">>, <<"5", "A", "L">>}

\* a course carries at most MaxTags tags per GE regime
MaxTags == 2

\* the loader appends a tag only when it is not yet in the list
TagLists == InjSeqsUpTo(TagCodes, MaxTags)

GeAttrKeys == {"igetc", "cal_getc"}

\* the courses a call is made with
MatchCourses ==
    {[code |-> "X 1", igetc |-> igetc, cal_getc |-> cal_getc] :
        igetc \in TagLists, cal_getc \in TagLists}

CourseMatchesArea ==
    /\ match.pc = "call"
    /\ match' = [match EXCEPT !.pc = "done",
                    !.result = _course_matches_area(match.course, match.area_code,
                                                    match.ge_attr_key)]
    /\ UNCHANGED <<pat, disk, geRules, ge, major, parsed, loader, majorAudit, rec, mt, disc>>

\* C2: a course satisfies an area code iff one of its tags for the pattern is
\* the area code, or the area code has one character and the tag starts with
\* it; an area code of two or more characters never prefix-matches.
MatchTags == match.course[match.ge_attr_key]

C2_MatchRule ==
    match.pc = "done" =>
        /\ Len(match.area_code) = 1 =>
              (match.result <=>
                  \E t \in Range(MatchTags) : Len(t) >= 1 /\ t[1] = match.area_code[1])
        /\ Len(match.area_code) >= 2 =>
              (match.result <=> match.area_code \in Range(MatchTags))

C2_Witness ==
    /\ match.pc = "done"
    /\ match.area_code = <<"5", "A">>
    /\ MatchTags = << <<"5", "A", "L">>, <<"5", "B">> >>
    /\ ~match.result

----------------------------------------------------------------------------
(* MajorAuditEngine._audit_requirement                                     *)

\* {}
EmptyDict == [k \in {} |-> k]

\* Optional[int]: None, or an integer n as <<n>>
None == <<>>

\* group_codes = [c.get("code", "") for c in option_group]
GroupCodes(option_group) ==
    [k \in 1..Len(option_group) |-> Get(option_group[k], "code", "")]

\* all(code in completed_codes for code in group_codes)
AllCompleted(group_codes, completed_codes) ==
    \A k \in 1..Len(group_codes) : group_codes[k] \in completed_codes

\* all(code in completed_codes or code in pending_codes for code in group_codes)
AllCompletedOrPending(group_codes, completed_codes, pending_codes) ==
    \A k \in 1..Len(group_codes) :
        group_codes[k] \in completed_codes \/ group_codes[k] \in pending_codes

\* any(code in pending_codes for code in group_codes)
AnyPending(group_codes, pending_codes) ==
    \E k \in 1..Len(group_codes) : group_codes[k] \in pending_codes

\* the mutant of the option-group loop that takes any enrolled member of a
\* group as making the item pending
RECURSIVE OptionLoopPartial(_, _, _, _, _)
OptionLoopPartial(smc_options, i, st, completed_codes, pending_codes) ==
    IF i > Len(smc_options) THEN st
    ELSE LET group_codes == GroupCodes(smc_options[i])
         IN  IF AllCompleted(group_codes, completed_codes)
             THEN [st EXCEPT !.found_completed = TRUE, !.matched_course = group_codes]
             ELSE IF AnyPending(group_codes, pending_codes)
                  THEN OptionLoopPartial(smc_options, i + 1,
                           [st EXCEPT !.found_pending = TRUE,
                                      !.matched_course = group_codes],
                           completed_codes, pending_codes)
                  ELSE OptionLoopPartial(smc_options, i + 1, st,
                                         completed_codes, pending_codes)

\* the loop over smc_options, from option group i on; st holds found_completed,
\* found_pending and matched_course; the first fully completed group breaks
RECURSIVE OptionLoop(_, _, _, _, _)
OptionLoop(smc_options, i, st, completed_codes, pending_codes) ==
    IF i > Len(smc_options) THEN st
    ELSE LET group_codes == GroupCodes(smc_options[i])
         IN  IF AllCompleted(group_codes, completed_codes)
             THEN [st EXCEPT !.found_completed = TRUE, !.matched_course = group_codes]
             ELSE IF /\ AllCompletedOrPending(group_codes, completed_codes, pending_codes)
                     /\ AnyPending(group_codes, pending_codes)
                  THEN OptionLoop(smc_options, i + 1,
                           [st EXCEPT !.found_pending = TRUE,
                                      !.matched_course = group_codes],
                           completed_codes, pending_codes)
                  ELSE OptionLoop(smc_options, i + 1, st,
                                  completed_codes, pending_codes)

\* the body of the loop over items: acc holds satisfied_items, pending_items
\* and missing_items; an item whose type is not COURSE is passed over
AuditItem(acc, item, completed_codes, pending_codes) ==
    IF Get(item, "type", "") # "COURSE" THEN acc
    ELSE LET smc_options == Get(item, "smc_options", <<>>)
             uni_course == Get(item, "university_course", EmptyDict)
             articulation_type == Get(item, "articulation_type", "")
             found == OptionLoop(smc_options, 1,
                         [found_completed |-> FALSE, found_pending |-> FALSE,
                          matched_course |-> <<>>],
                         completed_codes, pending_codes)
         IN  IF found.found_completed
             THEN [acc EXCEPT !.satisfied = Append(@,
                      [university_course |-> uni_course,
                       satisfied_by |-> found.matched_course,
                       status |-> "completed"])]
             ELSE IF found.found_pending
             THEN [acc EXCEPT !.pending = Append(@,
                      [university_course |-> uni_course,
                       pending_courses |-> found.matched_course,
                       status |-> "pending"])]
             ELSE [acc EXCEPT !.missing = Append(@,
                      [university_course |-> uni_course,
                       smc_options |-> smc_options,
                       articulation_type |-> articulation_type,
                       status |-> "missing"])]

\* for item in items
RECURSIVE ItemLoop(_, _, _, _, _)
ItemLoop(items, i, acc, completed_codes, pending_codes) ==
    IF i > Len(items) THEN acc
    ELSE ItemLoop(items, i + 1,
                  AuditItem(acc, items[i], completed_codes, pending_codes),
                  completed_codes, pending_codes)

\* the mutant of the ALL_OF status that reports pending while items are missing
AllOfStatusAnyPending(cat) ==
    [is_satisfied |-> Len(cat.missing) = 0 /\ Len(cat.pending) = 0,
     is_pending |-> Len(cat.pending) > 0]

\* the status of an ALL_OF group, and of a group of an unknown logic kind
AllOfStatus(cat) ==
    [is_satisfied |-> Len(cat.missing) = 0 /\ Len(cat.pending) = 0,
     is_pending |-> Len(cat.missing) = 0 /\ Len(cat.pending) > 0]

\* the mutant of the ONE_OF status that reports pending regardless of satisfaction
OneOfStatusNoGuard(cat) ==
    [is_satisfied |-> Len(cat.satisfied) >= 1,
     is_pending |-> Len(cat.pending) >= 1]

\* the mutant of the ONE_OF status that needs every item
OneOfStatusAll(cat) ==
    [is_satisfied |-> Len(cat.satisfied) >= 1 /\ Len(cat.missing) = 0,
     is_pending |-> ~(Len(cat.satisfied) >= 1 /\ Len(cat.missing) = 0)
                     /\ Len(cat.pending) >= 1]

OneOfStatus(cat) ==
    LET is_satisfied == Len(cat.satisfied) >= 1
    IN  [is_satisfied |-> is_satisfied,
         is_pending |-> ~is_satisfied /\ Len(cat.pending) >= 1]

\* the mutant of the counted status that needs more than N satisfied items
NOfStatusStrict(min_count, items, cat) ==
    LET required == IF min_count # None THEN min_count[1] ELSE 1
    IN  IF Len(items) = 0 /\ required > 0
        THEN [is_satisfied |-> FALSE, is_pending |-> FALSE]
        ELSE LET is_satisfied == Len(cat.satisfied) > required
             IN  [is_satisfied |-> is_satisfied,
                  is_pending |-> ~is_satisfied
                                 /\ Len(cat.satisfied) + Len(cat.pending) >= required]

\* the status of an N_OF, CHOOSE_N or AT_LEAST_N group
NOfStatus(min_count, items, cat) ==
    LET required == IF min_count # None THEN min_count[1] ELSE 1
    IN  IF Len(items) = 0 /\ required > 0
        THEN [is_satisfied |-> FALSE, is_pending |-> FALSE]
        ELSE LET is_satisfied == Len(cat.satisfied) >= required
             IN  [is_satisfied |-> is_satisfied,
                  is_pending |-> ~is_satisfied
                                 /\ Len(cat.satisfied) + Len(cat.pending) >= required]

\* the mutant of the dispatch that takes an unknown logic kind as ONE_OF
RequirementStatusUnknownAsOne(logic, min_count, items, cat) ==
    IF logic = "ALL_OF" THEN AllOfStatus(cat)
    ELSE IF logic \in {"N_OF", "CHOOSE_N", "AT_LEAST_N"} THEN NOfStatus(min_count, items, cat)
    ELSE OneOfStatus(cat)

\* the if / elif chain over the logic kind
RequirementStatus(logic, min_count, items, cat) ==
    IF logic = "ALL_OF" THEN AllOfStatus(cat)
    ELSE IF logic = "ONE_OF" THEN OneOfStatus(cat)
    ELSE IF logic \in {"N_OF", "CHOOSE_N", "AT_LEAST_N"} THEN NOfStatus(min_count, items, cat)
    ELSE AllOfStatus(cat)

_audit_requirement(req, completed_codes, pending_codes) ==
    LET req_id == Get(req, "id", "unknown")
        rule == Get(req, "rule", EmptyDict)
        logic == Get(rule, "logic", "ALL_OF")
        items == Get(req, "items", <<>>)
        min_count == Get(rule, "min_count", None)
        cat == ItemLoop(items, 1,
                        [satisfied |-> <<>>, pending |-> <<>>, missing |-> <<>>],
                        completed_codes, pending_codes)
        status == RequirementStatus(logic, min_count, items, cat)
    IN  [requirement_id |-> req_id,
         logic |-> logic,
         min_required |-> min_count,
         items |-> cat,
         satisfied_by |-> [k \in 1..Len(cat.satisfied) |-> cat.satisfied[k].satisfied_by],
         pending |-> [k \in 1..Len(cat.pending) |-> cat.pending[k].pending_courses],
         is_satisfied |-> status.is_satisfied,
         is_pending |-> status.is_pending]

\* the SMC courses of the articulation data
SmcCodes == {"CS 1", "CS 2", "CS 3"}

\* an option group: the SMC courses that together satisfy an item
Group(codes) == [k \in 1..Len(codes) |-> [code |-> codes[k]]]

\* the smc_options of the items a requirement is built from: one course, two
\* courses taken together, two alternatives, a pair or a single course, a
\* single course or a pair, and no articulation
OptionShapes == {
    << Group(<<"CS 1">>) >>,
    << Group(<<"CS 1", "CS 2">>) >>,
    << Group(<<"CS 1">>), Group(<<"CS 2">>) >>,
    << Group(<<"CS 1", "CS 2">>), Group(<<"CS 3">>) >>,
    << Group(<<"CS 2">>), Group(<<"CS 1", "CS 3">>) >>,
    << >> }

\* a requirement group lists at most MaxItems items
MaxItems == 2

\* a counted rule asks for at most MaxMinCount items
MaxMinCount == 2

UniCodes == <<"UNIV 1", "UNIV 2", "UNIV 3", "UNIV 4">>

\* the item at position i of a requirement: a COURSE item, or an item of
\* another type
ItemsAt(i) ==
    {[type |-> "COURSE", university_course |-> [code |-> UniCodes[i]],
      smc_options |-> o,
      articulation_type |-> IF o = << >> THEN "No Articulation" ELSE "Articulated"] :
        o \in OptionShapes}
    \cup {[type |-> "TEXT", university_course |-> [code |-> UniCodes[i]]]}

ItemLists ==
    UNION {{s \in [1..n -> UNION {ItemsAt(i) : i \in 1..n}] :
               \A i \in 1..n : s[i] \in ItemsAt(i)} : n \in 0..MaxItems}

\* the rules of a requirement: the uncounted kinds as the processor writes
\* them, a rule with no logic key, and the counted kinds with a min_count of
\* null or 0..MaxMinCount
Rules ==
    {[logic |-> "ALL_OF", min_count |-> None],
     [logic |-> "ONE_OF", min_count |-> <<1>>],
     [logic |-> "UP_TO_N", min_count |-> <<0>>],
     [min_count |-> None]}
    \cup {[logic |-> l, min_count |-> m] :
            l \in {"N_OF", "CHOOSE_N", "AT_LEAST_N"},
            m \in {None} \cup {<<n>> : n \in 0..MaxMinCount}}

Requirements ==
    {[id |-> "R1", rule |-> r, items |-> it] : r \in Rules, it \in ItemLists}

\* the student's completed and in-progress course codes: the parser keeps a
\* code out of in_progress once it is completed
StudentCodes ==
    {cp \in (SUBSET SmcCodes) \X (SUBSET SmcCodes) : cp[1] \cap cp[2] = {}}

\* MajorAuditEngine._audit_requirement on the student's current courses
AuditRequirement ==
    /\ major.pc \in {"call", "recall"}
    /\ major' = [major EXCEPT
          !.pc = IF major.pc = "call" THEN "done" ELSE "redone",
          !.result = _audit_requirement(major.req, major.completed_codes,
                                        major.pending_codes)]
    /\ UNCHANGED <<pat, match, disk, geRules, ge, parsed, loader, majorAudit, rec, mt, disc>>

\* the term ends: every in-progress course moves to the completed set, and the
\* caller keeps the earlier result
PendingCoursesComplete ==
    /\ major.pc = "done"
    /\ major' = [major EXCEPT
          !.pc = "recall",
          !.completed_codes = major.completed_codes \cup major.pending_codes,
          !.pending_codes = {},
          !.before = major.result]
    /\ UNCHANGED <<pat, match, disk, geRules, ge, parsed, loader, majorAudit, rec, mt, disc>>

----------------------------------------------------------------------------
(* Claims about MajorAuditEngine._audit_requirement                        *)

MajorDone == major.pc \in {"done", "redone"}

MajorItems == major.req.items

MajorLogic == Get(major.req.rule, "logic", "ALL_OF")

\* the positions of the COURSE items of the audited requirement
CourseItemIdx == {i \in 1..Len(MajorItems) : MajorItems[i].type = "COURSE"}

\* the course codes of the option groups of item i, each group as a set
ItemGroups(i) ==
    {{g[k].code : k \in 1..Len(g)} : g \in Range(MajorItems[i].smc_options)}

ItemIsSatisfied(i) == \E g \in ItemGroups(i) : g \subseteq major.completed_codes

ItemIsPending(i) ==
    /\ ~ItemIsSatisfied(i)
    /\ \E g \in ItemGroups(i) :
          /\ g \subseteq major.completed_codes \cup major.pending_codes
          /\ g \cap major.pending_codes # {}

ItemIsMissing(i) == ~ItemIsSatisfied(i) /\ ~ItemIsPending(i)

\* item i has an entry in a list of the result
Listed(list, i) ==
    \E k \in 1..Len(list) : list[k].university_course.code = UniCodes[i]

SatisfiedCount == Cardinality({i \in CourseItemIdx : ItemIsSatisfied(i)})
PendingCount == Cardinality({i \in CourseItemIdx : ItemIsPending(i)})
MissingCount == Cardinality({i \in CourseItemIdx : ItemIsMissing(i)})

\* C4: every COURSE item is placed in exactly one of satisfied / pending /
\* missing: satisfied iff some option group is fully completed, otherwise
\* pending iff some option group is fully completed-or-in-progress with a
\* member in progress, otherwise missing.
C4_ItemPlacement ==
    MajorDone =>
        LET cat == major.result.items
        IN  /\ \A i \in CourseItemIdx :
                  /\ Listed(cat.satisfied, i) <=> ItemIsSatisfied(i)
                  /\ Listed(cat.pending, i) <=> ItemIsPending(i)
                  /\ Listed(cat.missing, i) <=> ItemIsMissing(i)
            /\ Len(cat.satisfied) + Len(cat.pending) + Len(cat.missing)
                  = Cardinality(CourseItemIdx)

\* an ALL_OF group of two items: the first fully completed, the second with
\* one of the two courses of its only option group completed and the other
\* not enrolled
C4_Witness ==
    /\ major.pc = "done"
    /\ MajorLogic = "ALL_OF"
    /\ Len(MajorItems) = 2
    /\ MajorItems[1].type = "COURSE" /\ MajorItems[2].type = "COURSE"
    /\ MajorItems[1].smc_options = << Group(<<"CS 1">>) >>
    /\ MajorItems[2].smc_options = << Group(<<"CS 1", "CS 2">>) >>
    /\ major.completed_codes = {"CS 1"}
    /\ major.pending_codes = {"CS 3"}
    /\ Len(major.result.items.satisfied) = 1
    /\ Len(major.result.items.missing) = 1
    /\ ~major.result.is_satisfied
    /\ ~major.result.is_pending

\* the N of a counted group: min_count, or 1 when it is absent
RequiredN ==
    LET m == Get(major.req.rule, "min_count", None)
    IN  IF m = None THEN 1 ELSE m[1]

IsCounted == MajorLogic \in {"N_OF", "CHOOSE_N", "AT_LEAST_N"}

\* C5: under N_OF, CHOOSE_N and AT_LEAST_N the group is satisfied iff the
\* number of satisfied items is at least N; a group with no items and N > 0
\* is neither satisfied nor pending.
C5_CountedRule ==
    (MajorDone /\ IsCounted) =>
        /\ major.result.is_satisfied <=> SatisfiedCount >= RequiredN
        /\ (Len(MajorItems) = 0 /\ RequiredN > 0) =>
              (~major.result.is_satisfied /\ ~major.result.is_pending)

C5_Witness ==
    /\ major.pc = "done"
    /\ MajorLogic = "CHOOSE_N"
    /\ RequiredN = 2
    /\ SatisfiedCount = 2
    /\ major.result.is_satisfied

\* the empty counted group with N > 0
C5_WitnessEmpty ==
    /\ major.pc = "done"
    /\ IsCounted
    /\ Len(MajorItems) = 0
    /\ RequiredN > 0
    /\ major.pending_codes # {}
    /\ ~major.result.is_satisfied

\* C6: under ALL_OF, and under a logic kind the engine does not recognise, the
\* group is satisfied iff it has no missing and no pending item, and pending
\* iff it has no missing item and at least one pending item.
C6_AllOfRule ==
    (MajorDone /\ ~IsCounted /\ MajorLogic # "ONE_OF") =>
        /\ major.result.is_satisfied <=> (MissingCount = 0 /\ PendingCount = 0)
        /\ major.result.is_pending <=> (MissingCount = 0 /\ PendingCount >= 1)

C6_Witness ==
    /\ major.pc = "done"
    /\ MajorLogic = "UP_TO_N"
    /\ SatisfiedCount = 1
    /\ PendingCount = 1
    /\ MissingCount = 0
    /\ major.result.is_pending
    /\ ~major.result.is_satisfied

\* C7: under ONE_OF the group is satisfied iff at least one item is satisfied,
\* and pending iff it is not satisfied and at least one item is pending.
C7_OneOfRule ==
    (MajorDone /\ MajorLogic = "ONE_OF") =>
        /\ major.result.is_satisfied <=> SatisfiedCount >= 1
        /\ major.result.is_pending <=>
              (~major.result.is_satisfied /\ PendingCount >= 1)

C7_Witness ==
    /\ major.pc = "done"
    /\ MajorLogic = "ONE_OF"
    /\ SatisfiedCount = 1
    /\ MissingCount = 1
    /\ major.result.is_satisfied

\* C8: under every logic kind is_satisfied and is_pending are never both true.
C8_Exclusive ==
    MajorDone => ~(major.result.is_satisfied /\ major.result.is_pending)

C8_Witness ==
    /\ major.pc = "done"
    /\ MajorLogic = "ONE_OF"
    /\ SatisfiedCount = 1
    /\ PendingCount = 1
    /\ major.result.is_satisfied
    /\ ~major.result.is_pending

\* C9: a group is pending iff it is not satisfied now and the audit of the
\* same group after every in-progress course has moved to the completed set
\* finds it satisfied; a group satisfied now is satisfied after the move.
C9_PendingMeansSatisfiedLater ==
    major.pc = "redone" =>
        /\ major.before.is_pending <=>
              (~major.before.is_satisfied /\ major.result.is_satisfied)
        /\ major.before.is_satisfied => major.result.is_satisfied

C9_Witness ==
    /\ major.pc = "redone"
    /\ IsCounted
    /\ RequiredN = 2
    /\ major.before.is_pending
    /\ ~major.before.is_satisfied
    /\ major.result.is_satisfied
    /\ Len(major.result.items.missing) = 0

----------------------------------------------------------------------------
(* TranscriptParser.parse                                                  *)

\* config.py
PASSING_GRADES == {"A", "B", "C", "D", "P", "CR"}
FAILING_GRADES == {"F", "NP", "NC", "W", "I"}

\* _parse_course: the status from the grade and the status string; a grade is
\* None or <<letter>>
_parse_course(course_data) ==
    LET code == Get(course_data, "code", "")
        grade == Get(course_data, "grade", None)
        status_str == Get(course_data, "status", "")
        status ==
            IF status_str = "in_progress" \/ grade = None THEN "IN_PROGRESS"
            ELSE IF grade[1] \in PASSING_GRADES THEN "COMPLETED"
            ELSE IF grade[1] \in FAILING_GRADES THEN "FAILED"
            ELSE "FAILED"
    IN  [code |-> code, grade |-> grade, status |-> status]

\* [x for x in lst if x.code != code]
WithoutCode(lst, code) == SelectSeq(lst, LAMBDA x : x.code # code)

\* all_courses[course.code] = course, then the append to the list of its status
StoreCourse(st, course) ==
    LET stored == [st EXCEPT !.all_courses =
                       [k \in DOMAIN st.all_courses \cup {course.code} |->
                           IF k = course.code THEN course ELSE st.all_courses[k]]]
    IN  IF course.status = "COMPLETED"
        THEN [stored EXCEPT !.completed = Append(@, course)]
        ELSE IF course.status = "IN_PROGRESS"
        THEN [stored EXCEPT !.in_progress = Append(@, course)]
        ELSE IF course.status = "FAILED"
        THEN [stored EXCEPT !.failed = Append(@, course)]
        ELSE stored

\* the mutant of the loop body that lets a later attempt replace a completed one
ParseStepOverwrite(st, c) ==
    LET course == _parse_course(c)
    IN  IF course.code \in DOMAIN st.all_courses
        THEN LET existing == st.all_courses[course.code]
             IN  IF course.status = "COMPLETED"
                 THEN IF existing.status = "IN_PROGRESS"
                      THEN StoreCourse([st EXCEPT !.in_progress =
                                           WithoutCode(@, course.code)], course)
                      ELSE IF existing.status = "FAILED"
                      THEN StoreCourse([st EXCEPT !.failed =
                                           WithoutCode(@, course.code)], course)
                      ELSE StoreCourse(st, course)
                 ELSE IF existing.status = "IN_PROGRESS" /\ course.status = "FAILED"
                 THEN st
                 ELSE StoreCourse(st, course)
        ELSE StoreCourse(st, course)

\* the body of the loop over courses_raw, with its duplicate handling
ParseStep(st, c) ==
    LET course == _parse_course(c)
    IN  IF course.code \in DOMAIN st.all_courses
        THEN LET existing == st.all_courses[course.code]
             IN  IF existing.status = "COMPLETED"
                 THEN st
                 ELSE IF course.status = "COMPLETED"
                 THEN IF existing.status = "IN_PROGRESS"
                      THEN StoreCourse([st EXCEPT !.in_progress =
                                           WithoutCode(@, course.code)], course)
                      ELSE IF existing.status = "FAILED"
                      THEN StoreCourse([st EXCEPT !.failed =
                                           WithoutCode(@, course.code)], course)
                      ELSE StoreCourse(st, course)
                 ELSE IF existing.status = "IN_PROGRESS" /\ course.status = "FAILED"
                 THEN st
                 ELSE StoreCourse(st, course)
        ELSE StoreCourse(st, course)

\* for c in courses_raw
RECURSIVE ParseLoop(_, _, _)
ParseLoop(courses_raw, i, st) ==
    IF i > Len(courses_raw) THEN st
    ELSE ParseLoop(courses_raw, i + 1, ParseStep(st, courses_raw[i]))

parse(transcript_data) ==
    LET courses_raw == Get(transcript_data, "courses", <<>>)
    IN  ParseLoop(courses_raw, 1,
                  [completed |-> <<>>, in_progress |-> <<>>, failed |-> <<>>,
                   all_courses |-> EmptyDict])

\* the course codes of a transcript
TranscriptCodes == {"MATH 7", "ENGL 1"}

\* the entries of a transcript: per course an enrolment with no grade yet, two
\* passing grades, a failing grade, a grade in neither grade set, and a graded
\* entry still marked in progress
RawCourses ==
    {[code |-> c, grade |-> e[1], status |-> e[2]] :
        c \in TranscriptCodes,
        e \in {<<None, "in_progress">>, <<<<"A">>, "completed">>,
               <<<<"B">>, "completed">>, <<<<"F">>, "completed">>,
               <<<<"A-">>, "completed">>, <<<<"B">>, "in_progress">>}}

\* a transcript lists at most MaxAttempts course entries
MaxAttempts == 3

Transcripts == {[courses |-> cs] : cs \in SeqsUpTo(RawCourses, MaxAttempts)}

Parse ==
    /\ parsed.pc = "call"
    /\ parsed' = [parsed EXCEPT !.pc = "done",
                                !.result = parse(parsed.transcript_data)]
    /\ UNCHANGED <<pat, match, disk, geRules, ge, major, loader, majorAudit, rec, mt, disc>>

\* C10: for any sequence of attempts at a course, parse records for the code
\* the highest status among its attempts under COMPLETED > IN_PROGRESS >
\* FAILED: the first COMPLETED attempt is kept whatever follows, a later
\* COMPLETED attempt replaces an IN_PROGRESS or FAILED one, and a later FAILED
\* attempt never replaces an IN_PROGRESS one.
StatusRank(status) ==
    IF status = "COMPLETED" THEN 3 ELSE IF status = "IN_PROGRESS" THEN 2 ELSE 1

\* the attempts of a transcript at one code, in transcript order
Attempts(code) ==
    LET raw == SelectSeq(parsed.transcript_data.courses, LAMBDA c : c.code = code)
    IN  [k \in 1..Len(raw) |-> _parse_course(raw[k])]

BestRank(code) ==
    LET a == Attempts(code)
    IN  CHOOSE r \in 1..3 :
            /\ \E k \in 1..Len(a) : StatusRank(a[k].status) = r
            /\ \A k \in 1..Len(a) : StatusRank(a[k].status) <= r

\* the first completed attempt at a code
FirstCompleted(code) ==
    LET a == Attempts(code)
        k == CHOOSE k \in 1..Len(a) :
                /\ a[k].status = "COMPLETED"
                /\ \A j \in 1..(k - 1) : a[j].status # "COMPLETED"
    IN  a[k]

C10_BestAttemptWins ==
    parsed.pc = "done" =>
        LET all_courses == parsed.result.all_courses
        IN  /\ DOMAIN all_courses =
                  {c \in TranscriptCodes : Len(Attempts(c)) > 0}
            /\ \A c \in DOMAIN all_courses :
                  /\ StatusRank(all_courses[c].status) = BestRank(c)
                  /\ BestRank(c) = 3 => all_courses[c] = FirstCompleted(c)
                  /\ (\E x \in Range(parsed.result.completed) : x.code = c)
                        <=> BestRank(c) = 3
                  /\ (\E x \in Range(parsed.result.in_progress) : x.code = c)
                        <=> BestRank(c) = 2

\* a course failed, then passed with B, then failed again
C10_Witness ==
    /\ parsed.pc = "done"
    /\ parsed.transcript_data.courses =
          << [code |-> "MATH 7", grade |-> <<"F">>, status |-> "completed"],
             [code |-> "MATH 7", grade |-> <<"B">>, status |-> "completed"],
             [code |-> "MATH 7", grade |-> <<"F">>, status |-> "completed"] >>
    /\ parsed.result.all_courses["MATH 7"].status = "COMPLETED"
    /\ parsed.result.all_courses["MATH 7"].grade = <<"B">>

----------------------------------------------------------------------------
(* GEAuditEngine.audit                                                     *)

\* an insertion-ordered dict with string keys is a sequence of [code, data]
\* items; key in d
HasKey(d, code) == \E i \in 1..Len(d) : d[i].code = code

\* d.get(key, default) on an insertion-ordered dict
Lookup(d, code, default) ==
    IF HasKey(d, code)
    THEN d[CHOOSE i \in 1..Len(d) : d[i].code = code].data
    ELSE default

\* list(d.keys())
Keys(d) == [i \in 1..Len(d) |-> d[i].code]

\* str.upper() on the characters of a target system
UpperChar(c) ==
    IF \E i \in 1..Len(LowerChars) : LowerChars[i] = c
    THEN UpperChars[CHOOSE i \in 1..Len(LowerChars) : LowerChars[i] = c]
    ELSE c

Upper(s) == [i \in 1..Len(s) |-> UpperChar(s[i])]

\* the ASCII characters of codes and names in code-point order, for the
\* comparison of strings by sort
CodePoints ==
    <<" ", "'", "(", ")", "-", "0", "1", "2", "3", "4", "5", "6", "7", "8",
      "9", ":", "A", "B", "C", "D", "E", "F", "G", "H", "I", "J", "K", "L",
      "M", "N", "O", "P", "Q", "R", "S", "T", "U", "V", "W", "X", "Y", "Z",
      "_", "a", "b", "c", "d", "e", "f", "g", "h", "i", "j", "k", "l", "m",
      "n", "o", "p", "q", "r", "s", "t", "u", "v", "w", "x", "y", "z", "|">>

CodePoint(c) == CHOOSE i \in 1..Len(CodePoints) : CodePoints[i] = c

\* a < b on strings
RECURSIVE StrLess(_, _)
StrLess(a, b) ==
    IF Len(b) = 0 THEN FALSE
    ELSE IF Len(a) = 0 THEN TRUE
    ELSE IF a[1] = b[1] THEN StrLess(Tail(a), Tail(b))
    ELSE CodePoint(a[1]) < CodePoint(b[1])

\* list.sort(key=lambda x: x.code): a stable sort by code
RECURSIVE SortByCode(_)
SortByCode(results) ==
    IF Len(results) = 0 THEN <<>>
    ELSE LET x == results[Len(results)]
             front == SortByCode(SubSeq(results, 1, Len(results) - 1))
             \* x goes after every element that is not greater than it
             k == Cardinality({i \in 1..Len(front) : ~StrLess(x.code, front[i].code)})
         IN  SubSeq(front, 1, k) \o <<x>> \o SubSeq(front, k + 1, Len(front))

\* sum(c.units for c in courses)
RECURSIVE SumUnits(_)
SumUnits(courses) ==
    IF Len(courses) = 0 THEN 0 ELSE courses[1].units + SumUnits(Tail(courses))

\* the mutant of the de-duplication loop that keeps every course
UniqueByCodeKeepAll(courses, seen_codes) == courses

\* the de-duplication loop: the first course of each code, in order
RECURSIVE UniqueByCode(_, _)
UniqueByCode(courses, seen_codes) ==
    IF Len(courses) = 0 THEN <<>>
    ELSE IF courses[1].code \in seen_codes
         THEN UniqueByCode(Tail(courses), seen_codes)
         ELSE <<courses[1]>> \o UniqueByCode(Tail(courses), seen_codes \cup {courses[1].code})

\* [c for c in courses if self._course_matches_area(c, area_code, ge_attr_key)]
Matching(courses, area_code, ge_attr_key) ==
    SelectSeq(courses, LAMBDA c : _course_matches_area(c, area_code, ge_attr_key))

\* string literals of the notes
StrSubareas == <<"S", "u", "b", "a", "r", "e", "a", "s", ":">>
StrNotRequiredFor ==
    <<"N", "o", "t", " ", "r", "e", "q", "u", "i", "r", "e", "d", " ", "f", "o", "r", " ">>
StrLaboratory == <<"L", "a", "b", "o", "r", "a", "t", "o", "r", "y">>

\* the characters U+2713 (check mark) and U+2717 (ballot x) of the notes
CheckMark == "<U+2713>"
CrossMark == "<U+2717>"

\* f"{s['code']} ({s['name']}): {status}"
SubNote(s) ==
    s.code \o <<" ", "(">> \o s.name \o <<")", ":", " ">>
           \o <<IF s.satisfied THEN CheckMark ELSE CrossMark>>

\* " | ".join(parts)
RECURSIVE JoinBar(_)
JoinBar(parts) ==
    IF Len(parts) = 0 THEN <<>>
    ELSE IF Len(parts) = 1 THEN parts[1]
    ELSE parts[1] \o <<" ", "|", " ">> \o JoinBar(Tail(parts))

\* the loop over subareas_to_check: acc holds subarea_results, all_completed
\* and all_pending
RECURSIVE SubareaLoop(_, _, _, _, _, _, _)
SubareaLoop(subareas_to_check, i, acc, subareas_dict, completed, in_progress, ge_attr_key) ==
    IF i > Len(subareas_to_check) THEN acc
    ELSE LET sub_code == subareas_to_check[i]
             sub_info == Lookup(subareas_dict, sub_code, EmptyDict)
             sub_name == Get(sub_info, "name", sub_code)
             sub_min == Get(sub_info, "min_courses", 1)
             matching_completed == Matching(completed, sub_code, ge_attr_key)
             matching_pending == Matching(in_progress, sub_code, ge_attr_key)
             sub_satisfied == Len(matching_completed) >= sub_min
         IN  SubareaLoop(subareas_to_check, i + 1,
                 [subarea_results |-> Append(acc.subarea_results,
                      [code |-> sub_code, name |-> sub_name, required |-> sub_min,
                       completed |-> matching_completed, pending |-> matching_pending,
                       satisfied |-> sub_satisfied]),
                  all_completed |-> acc.all_completed \o matching_completed,
                  all_pending |-> acc.all_pending \o matching_pending],
                 subareas_dict, completed, in_progress, ge_attr_key)

_audit_area_with_subareas_v2(area_code, area_name, description, subareas_dict, min_courses, min_units, required_subareas, constraints, completed, in_progress, ge_attr_key) ==
    LET base == IF Len(required_subareas) > 0 THEN required_subareas
                ELSE Keys(subareas_dict)
        require_one_each == Get(constraints, "require_one_each_from", <<>>)
        after_one_each == IF Len(require_one_each) > 0 THEN require_one_each ELSE base
        require_subareas == Get(constraints, "require_subareas", <<>>)
        subareas_to_check == IF Len(require_subareas) > 0 THEN require_subareas
                             ELSE after_one_each
        looped == SubareaLoop(subareas_to_check, 1,
                      [subarea_results |-> <<>>, all_completed |-> <<>>,
                       all_pending |-> <<>>],
                      subareas_dict, completed, in_progress, ge_attr_key)
        lab_required == Get(constraints, "require_at_least_one_lab", FALSE)
        lab_code == <<"5", "C">>
        lab_courses == Matching(completed, lab_code, ge_attr_key)
        lab_satisfied == IF lab_required THEN Len(lab_courses) >= 1 ELSE TRUE
        subarea_results ==
            IF lab_required /\ ~lab_satisfied
            THEN Append(looped.subarea_results,
                     [code |-> lab_code, name |-> StrLaboratory, required |-> 1,
                      completed |-> lab_courses, pending |-> <<>>,
                      satisfied |-> FALSE])
            ELSE looped.subarea_results
        unique_completed == UniqueByCode(looped.all_completed, {})
        unique_pending == UniqueByCode(looped.all_pending, {})
        all_subs_satisfied ==
            \A k \in 1..Len(subarea_results) : subarea_results[k].satisfied
        total_courses == Len(unique_completed)
        total_units == SumUnits(unique_completed)
        is_satisfied == /\ all_subs_satisfied
                        /\ total_courses >= min_courses
                        /\ total_units >= min_units
                        /\ lab_satisfied
        sub_notes == JoinBar([k \in 1..Len(subarea_results) |->
                                  SubNote(subarea_results[k])])
    IN  [code |-> area_code,
         name |-> area_name,
         required_courses |-> min_courses,
         required_units |-> min_units,
         completed_courses |-> unique_completed,
         pending_courses |-> unique_pending,
         is_satisfied |-> is_satisfied,
         notes |-> IF Len(sub_notes) > 0 THEN StrSubareas \o <<" ">> \o sub_notes
                   ELSE description]

\* the mutant of the simple area's test that counts the pending matches too
SimpleAreaSatisfiedWithPending(matching_completed, matching_pending, min_courses) ==
    Len(matching_completed) + Len(matching_pending) >= min_courses

\* is_satisfied of an area without subareas: the pending matches take no part
SimpleAreaSatisfied(matching_completed, matching_pending, min_courses) ==
    Len(matching_completed) >= min_courses

_audit_area_v2(area_code, area_data, completed, in_progress, ge_attr_key, target_key, year_code) ==
    LET name == Get(area_data, "name", <<>>)
        description == Get(area_data, "description", <<>>)
        per_target == Get(area_data, "per_target", EmptyDict)
        target_reqs == Get(per_target, target_key, EmptyDict)
    IN  IF "required" \in DOMAIN target_reqs /\ target_reqs.required = FALSE
        THEN [code |-> area_code, name |-> name,
              required_courses |-> 0, required_units |-> 0,
              completed_courses |-> <<>>, pending_courses |-> <<>>,
              is_satisfied |-> TRUE,
              notes |-> StrNotRequiredFor \o target_key]
        ELSE LET min_courses == Get(target_reqs, "min_courses", 1)
                 min_units == Get(target_reqs, "min_units_semester", 3)
                 required_subareas == Get(target_reqs, "required_subareas", <<>>)
                 constraints == Get(target_reqs, "constraints", EmptyDict)
                 subareas_dict == Get(area_data, "subareas", <<>>)
             IN  IF Len(required_subareas) > 0 \/ Len(subareas_dict) > 0
                 THEN _audit_area_with_subareas_v2(area_code, name, description,
                          subareas_dict, min_courses, min_units, required_subareas,
                          constraints, completed, in_progress, ge_attr_key)
                 ELSE LET matching_completed == Matching(completed, area_code, ge_attr_key)
                          matching_pending == Matching(in_progress, area_code, ge_attr_key)
                      IN  [code |-> area_code, name |-> name,
                           required_courses |-> min_courses,
                           required_units |-> min_units,
                           completed_courses |-> matching_completed,
                           pending_courses |-> matching_pending,
                           is_satisfied |-> SimpleAreaSatisfied(matching_completed,
                                                matching_pending, min_courses),
                           notes |-> description]

\* the loop over override_areas.items(): an override of an area the pattern
\* has replaces its per_target block and may flag it disabled
RECURSIVE OverrideAreasLoop(_, _, _)
OverrideAreasLoop(areas, override_areas, i) ==
    IF i > Len(override_areas) THEN areas
    ELSE LET area_code == override_areas[i].code
             area_override == override_areas[i].data
             merged ==
                 [k \in 1..Len(areas) |->
                     IF areas[k].code # area_code THEN areas[k]
                     ELSE LET original == areas[k].data
                              with_target ==
                                  IF "per_target" \in DOMAIN area_override
                                  THEN [f \in DOMAIN original \cup {"per_target"} |->
                                           IF f = "per_target" THEN area_override.per_target
                                           ELSE original[f]]
                                  ELSE original
                              with_disabled ==
                                  IF Get(area_override, "disabled", FALSE)
                                  THEN [f \in DOMAIN with_target \cup {"disabled"} |->
                                           IF f = "disabled" THEN TRUE
                                           ELSE with_target[f]]
                                  ELSE with_target
                          IN  [code |-> area_code, data |-> with_disabled]]
         IN  OverrideAreasLoop(merged, override_areas, i + 1)

\* the mutant of the loop over year_overrides that applies every override
\* whose range holds the year code
RECURSIVE YearOverridesLoopAll(_, _, _)
YearOverridesLoopAll(pattern, year_code, i) ==
    LET year_overrides == Get(pattern, "year_overrides", <<>>)
    IN  IF i > Len(year_overrides) THEN pattern
        ELSE LET override == year_overrides[i]
                 year_min == Get(override, "year_id_min", 0)
                 year_max == Get(override, "year_id_max", 999)
             IN  IF year_min <= year_code /\ year_code <= year_max /\ "areas" \in DOMAIN pattern
                 THEN YearOverridesLoopAll(
                          [pattern EXCEPT !.areas =
                              OverrideAreasLoop(pattern.areas,
                                                Get(override, "areas", <<>>), 1)],
                          year_code, i + 1)
                 ELSE YearOverridesLoopAll(pattern, year_code, i + 1)

\* the loop over year_overrides, which breaks at the first override whose range
\* holds the year code
RECURSIVE YearOverridesLoop(_, _, _)
YearOverridesLoop(pattern, year_code, i) ==
    LET year_overrides == Get(pattern, "year_overrides", <<>>)
    IN  IF i > Len(year_overrides) THEN pattern
        ELSE LET override == year_overrides[i]
                 year_min == Get(override, "year_id_min", 0)
                 year_max == Get(override, "year_id_max", 999)
             IN  IF year_min <= year_code /\ year_code <= year_max
                 THEN IF "areas" \in DOMAIN pattern
                      THEN [pattern EXCEPT !.areas =
                               OverrideAreasLoop(pattern.areas,
                                                 Get(override, "areas", <<>>), 1)]
                      ELSE pattern
                 ELSE YearOverridesLoop(pattern, year_code, i + 1)

_apply_year_overrides(pattern, year_code) == YearOverridesLoop(pattern, year_code, 1)

\* the loop over areas_dict.items(), which passes over disabled areas
RECURSIVE AreaLoop(_, _, _, _, _, _, _)
AreaLoop(areas_dict, i, completed, in_progress, ge_attr_key, target_key, year_code) ==
    IF i > Len(areas_dict) THEN <<>>
    ELSE LET rest == AreaLoop(areas_dict, i + 1, completed, in_progress,
                              ge_attr_key, target_key, year_code)
         IN  IF Get(areas_dict[i].data, "disabled", FALSE) THEN rest
             ELSE <<_audit_area_v2(areas_dict[i].code, areas_dict[i].data, completed,
                                   in_progress, ge_attr_key, target_key, year_code)>>
                  \o rest

\* the loader before its first use: _ge_rules is None
NotLoaded == [loaded |-> FALSE]

\* DataLoader.ge_rules: the file is read on first use and the tree is cached
LoadGeRules(cache, file) == IF cache.loaded THEN cache.data ELSE file

\* GEAuditEngine.audit: the result, and the rule tree the loader caches after
\* the call (the overrides are merged into the cached tree itself)
audit(cache, file, student_state, entry_year, entry_term, target_system) ==
    LET pattern_key == determine_ge_pattern(entry_year, entry_term)
        ge_rules == LoadGeRules(cache, file)
        systems == Get(ge_rules, "systems", EmptyDict)
        year_code == academic_year_to_code(entry_year)
        pattern == _apply_year_overrides(Get(systems, pattern_key, EmptyDict), year_code)
        completed == student_state.completed
        in_progress == student_state.in_progress
        ge_attr_key == IF pattern_key = "IGETC" THEN "igetc" ELSE "cal_getc"
        target_key == Upper(target_system)
        areas_dict == Get(pattern, "areas", <<>>)
        area_results == SortByCode(AreaLoop(areas_dict, 1, completed, in_progress,
                                            ge_attr_key, target_key, year_code))
        ge_courses == UNION {{c.code : c \in Range(area_results[k].completed_courses)} :
                                k \in 1..Len(area_results)}
    IN  [result |->
            [pattern_name |-> Get(pattern, "pattern_name", pattern_key),
             pattern_key |-> pattern_key,
             areas |-> area_results,
             overall_satisfied |->
                 \A k \in 1..Len(area_results) : area_results[k].is_satisfied,
             total_units_completed |->
                 SumUnits(SelectSeq(completed, LAMBDA c : c.code \in ge_courses))],
         cache |->
            [loaded |-> TRUE,
             data |-> IF "systems" \in DOMAIN ge_rules /\ pattern_key \in DOMAIN systems
                      THEN [ge_rules EXCEPT !.systems[pattern_key] = pattern]
                      ELSE ge_rules]]

----------------------------------------------------------------------------
(* The GE rule files, the students and the calls of the GE audit           *)

CSU == <<"C", "S", "U">>
UC == <<"U", "C">>

\* a per_target block
PerTarget(csu, uc) == [t \in {CSU, UC} |-> IF t = CSU THEN csu ELSE uc]

\* the subareas of the science area
ScienceSubareas == <<
    [code |-> <<"5", "A">>, data |-> [name |-> <<"P", "h", "y", "s">>, min_courses |-> 1]],
    [code |-> <<"5", "B">>, data |-> [name |-> <<"B", "i", "o">>, min_courses |-> 1]],
    [code |-> <<"5", "C">>, data |-> [name |-> <<"L", "a", "b">>]] >>

\* a rule file in the shape of the schema v2.0: IGETC asks for 3 courses in
\* area 4 before the year code 74 and for 2 from then on, area 6 is for UC
\* only; Cal-GETC is the same for both targets
GeRulesFileA ==
    [systems |->
        [IGETC |->
            [pattern_name |-> "IGETC for UC and CSU",
             areas |-> <<
                [code |-> <<"5">>, data |->
                    [name |-> <<"S", "c", "i">>,
                     per_target |-> PerTarget(
                        [min_courses |-> 2, min_units_semester |-> 7,
                         required_subareas |-> << <<"5", "A">>, <<"5", "B">> >>,
                         constraints |-> [require_at_least_one_lab |-> TRUE]],
                        [min_courses |-> 2, min_units_semester |-> 7,
                         required_subareas |-> << <<"5", "A">>, <<"5", "B">> >>,
                         constraints |-> [require_at_least_one_lab |-> TRUE]]),
                     subareas |-> ScienceSubareas]],
                [code |-> <<"2">>, data |->
                    [name |-> <<"M", "a", "t", "h">>,
                     per_target |-> PerTarget(
                        [min_courses |-> 1, min_units_semester |-> 3],
                        [min_courses |-> 1, min_units_semester |-> 3])]],
                [code |-> <<"4">>, data |->
                    [name |-> <<"S", "o", "c">>,
                     per_target |-> PerTarget(
                        [min_courses |-> 3, min_units_semester |-> 9],
                        [min_courses |-> 3, min_units_semester |-> 9])]],
                [code |-> <<"6">>, data |->
                    [name |-> <<"L", "O", "T", "E">>,
                     per_target |-> PerTarget(
                        [required |-> FALSE],
                        [min_courses |-> 1, min_units_semester |-> 3])]] >>,
             year_overrides |-> <<
                [year_id_min |-> 74, year_id_max |-> 999,
                 areas |-> <<
                    [code |-> <<"4">>, data |->
                        [per_target |-> PerTarget(
                            [min_courses |-> 2, min_units_semester |-> 6],
                            [min_courses |-> 2, min_units_semester |-> 6])]] >>],
                [year_id_min |-> 70, year_id_max |-> 80,
                 areas |-> <<
                    [code |-> <<"6">>, data |-> [disabled |-> TRUE]] >>] >>],
         CalGETC |->
            [pattern_name |-> "Cal-GETC",
             areas |-> <<
                [code |-> <<"2">>, data |->
                    [name |-> <<"M", "a", "t", "h">>,
                     per_target |-> PerTarget(
                        [min_courses |-> 1, min_units_semester |-> 3],
                        [min_courses |-> 1, min_units_semester |-> 3])]],
                [code |-> <<"4">>, data |->
                    [name |-> <<"S", "o", "c">>,
                     per_target |-> PerTarget(
                        [min_courses |-> 2, min_units_semester |-> 6],
                        [min_courses |-> 2, min_units_semester |-> 6])]],
                [code |-> <<"5">>, data |->
                    [name |-> <<"S", "c", "i">>,
                     per_target |-> PerTarget(
                        [min_courses |-> 2, min_units_semester |-> 7,
                         constraints |->
                            [require_one_each_from |-> << <<"5", "A">>, <<"5", "B">> >>,
                             require_at_least_one_lab |-> TRUE]],
                        [min_courses |-> 2, min_units_semester |-> 7,
                         constraints |->
                            [require_one_each_from |-> << <<"5", "A">>, <<"5", "B">> >>,
                             require_at_least_one_lab |-> TRUE]]),
                     subareas |-> ScienceSubareas]] >>]]]

\* a rule file that leaves the thresholds to the engine's defaults: area 2A
\* and area 4 have no per_target block, area 5 lists its subareas only, and
\* the first override disables area 4 for the year codes up to 73
GeRulesFileB ==
    [systems |->
        [IGETC |->
            [areas |-> <<
                [code |-> <<"4">>, data |-> [name |-> <<"S", "o", "c">>]],
                [code |-> <<"2", "A">>, data |-> [name |-> <<"M", "a", "t", "h">>]],
                [code |-> <<"5">>, data |->
                    [name |-> <<"S", "c", "i">>,
                     per_target |-> PerTarget(
                        [min_courses |-> 2, min_units_semester |-> 7],
                        [min_courses |-> 3, min_units_semester |-> 9,
                         constraints |->
                            [require_subareas |-> << <<"5", "B">>, <<"5", "C">> >>]]),
                     subareas |-> ScienceSubareas]] >>,
             year_overrides |-> <<
                [year_id_max |-> 73,
                 areas |-> <<
                    [code |-> <<"4">>, data |-> [disabled |-> TRUE]],
                    [code |-> <<"1">>, data |-> [disabled |-> TRUE]] >>],
                [year_id_min |-> 72,
                 areas |-> <<
                    [code |-> <<"5">>, data |->
                        [per_target |-> PerTarget(
                            [min_courses |-> 1, min_units_semester |-> 4,
                             required_subareas |-> << <<"5", "A">> >>],
                            [required |-> FALSE])]] >>] >>],
         CalGETC |->
            [pattern_name |-> "Cal-GETC",
             areas |-> <<
                [code |-> <<"2">>, data |-> [name |-> <<"M", "a", "t", "h">>]],
                [code |-> <<"4">>, data |->
                    [name |-> <<"S", "o", "c">>,
                     per_target |-> PerTarget(
                        [min_courses |-> 2, min_units_semester |-> 6],
                        [min_courses |-> 2, min_units_semester |-> 6])]] >>]]]

GeRulesFiles == {GeRulesFileA, GeRulesFileB}

\* the courses a student may have taken, with the units of the transcript and
\* the GE tags of the year-scoped files
CoursePool == <<
    [code |-> "MATH 13", units |-> 3,
     igetc |-> << <<"2", "A">> >>, cal_getc |-> << <<"2">> >>],
    [code |-> "PHYSCS 21", units |-> 5,
     igetc |-> << <<"5", "A">>, <<"5", "C">> >>,
     cal_getc |-> << <<"5", "A">>, <<"5", "C">> >>],
    [code |-> "BIOL 3", units |-> 4,
     igetc |-> << <<"5", "B">>, <<"5", "C">> >>,
     cal_getc |-> << <<"5", "B">>, <<"5", "C">> >>],
    [code |-> "POL SC 1", units |-> 3,
     igetc |-> << <<"4", "H">> >>, cal_getc |-> << <<"4">> >>],
    [code |-> "ECON 1", units |-> 3,
     igetc |-> << <<"4", "B">> >>, cal_getc |-> << <<"4">> >>],
    [code |-> "HEALTH 10", units |-> 2,
     igetc |-> << <<"4", "H">> >>, cal_getc |-> << <<"4">> >>] >>

\* the courses of the pool at the positions idx, in pool order, with a status
PoolCourses(idx, status) ==
    LET chosen == SelectSeq([i \in 1..Len(CoursePool) |-> i], LAMBDA i : i \in idx)
    IN  [k \in 1..Len(chosen) |->
            [code |-> CoursePool[chosen[k]].code,
             units |-> CoursePool[chosen[k]].units,
             status |-> status,
             igetc |-> CoursePool[chosen[k]].igetc,
             cal_getc |-> CoursePool[chosen[k]].cal_getc]]

\* the student states: every course of the pool is completed, in progress or
\* not taken
StudentStates ==
    {[completed |-> PoolCourses(cp[1], "COMPLETED"),
      in_progress |-> PoolCourses(cp[2], "IN_PROGRESS")] :
        cp \in {x \in (SUBSET (1..Len(CoursePool))) \X (SUBSET (1..Len(CoursePool))) :
                   x[1] \cap x[2] = {}}}

GeEntryYears == {2018, 2020, 2023, 2025, 2026}
GeEntryTerms == {<<"F", "a", "l", "l">>, <<"S", "p", "r", "i", "n", "g">>}
TargetSystems == {<<"c", "s", "u">>, <<"u", "c">>}

\* GEAuditEngine.audit on the loader's rule tree
GeAudit ==
    /\ ge.pc = "call"
    /\ LET r == audit(geRules, disk.ge_rules, ge.student_state, ge.entry_year,
                      ge.entry_term, ge.target_system)
       IN  /\ ge' = [ge EXCEPT !.pc = "done", !.result = r.result]
           /\ geRules' = r.cache
    /\ UNCHANGED <<pat, match, disk, major, parsed, loader, majorAudit, rec, mt, disc>>

\* C1: every area result the GE audit returns with is_satisfied true has at
\* least required_courses completed courses and at least required_units units
\* in its completed courses.
C1_SatisfiedMeetsThresholds ==
    ge.pc = "done" =>
        \A k \in 1..Len(ge.result.areas) :
            LET area == ge.result.areas[k]
            IN  area.is_satisfied =>
                    /\ Len(area.completed_courses) >= area.required_courses
                    /\ SumUnits(area.completed_courses) >= area.required_units

----------------------------------------------------------------------------
(* MajorAuditEngine.audit                                                  *)

\* bool(x) is False for None, an empty dict, an empty list and an empty string
Falsy(x) == DOMAIN x = {}

\* a < b on strings, as sorted() compares them; the least string of a set
MinStr(S) == CHOOSE x \in S : \A y \in S : x = y \/ StrLess(x, y)

\* sorted(set_of_strings)
RECURSIVE SortedStrings(_)
SortedStrings(S) ==
    IF S = {} THEN <<>> ELSE <<MinStr(S)>> \o SortedStrings(S \ {MinStr(S)})

\* lst[:n]
Prefix(lst, n) == SubSeq(lst, 1, IF Len(lst) < n THEN Len(lst) ELSE n)

\* DataLoader.load_major_articulation: the cached tree of a university, else
\* its file, or FileNotFoundError when the university has none
load_major_articulation(cache, files, university_name) ==
    IF university_name \in DOMAIN cache
    THEN [raised |-> FALSE, value |-> cache[university_name]]
    ELSE IF university_name \in DOMAIN files
    THEN [raised |-> FALSE, value |-> files[university_name]]
    ELSE [raised |-> TRUE, exc |-> "FileNotFoundError"]

\* DataLoader._majors_cache after load_major_articulation
MajorsCacheAfter(cache, files, university_name) ==
    IF university_name \in DOMAIN cache \/ university_name \notin DOMAIN files
    THEN cache
    ELSE [u \in DOMAIN cache \cup {university_name} |->
             IF u = university_name THEN files[university_name] ELSE cache[u]]

\* majors = data.get("majors", data) if isinstance(data, dict) else data; a
\* file is [is_dict, value]; the result is [is_list, value]
MajorsOf(data) ==
    IF data.is_dict
    THEN IF "majors" \in DOMAIN data.value
         THEN [is_list |-> TRUE, value |-> data.value.majors]
         ELSE [is_list |-> FALSE, value |-> data.value]
    ELSE [is_list |-> TRUE, value |-> data.value]

\* the mutant of the loop that compares the names as they are written
RECURSIVE FindMajorLoopExact(_, _, _)
FindMajorLoopExact(majors, i, major_name) ==
    IF i > Len(majors) THEN None
    ELSE IF Get(majors[i], "major", <<>>) = major_name THEN majors[i]
    ELSE FindMajorLoopExact(majors, i + 1, major_name)

\* for m in majors: the first entry whose name equals major_name in lower case
RECURSIVE FindMajorLoop(_, _, _)
FindMajorLoop(majors, i, major_name) ==
    IF i > Len(majors) THEN None
    ELSE IF Lower(Get(majors[i], "major", <<>>)) = Lower(major_name) THEN majors[i]
    ELSE FindMajorLoop(majors, i + 1, major_name)

find_major(cache, files, university_name, major_name) ==
    LET loaded == load_major_articulation(cache, files, university_name)
    IN  IF loaded.raised THEN None
        ELSE LET majors == MajorsOf(loaded.value)
             IN  IF majors.is_list THEN FindMajorLoop(majors.value, 1, major_name)
                 ELSE None

list_majors(cache, files, university_name) ==
    LET loaded == load_major_articulation(cache, files, university_name)
    IN  IF loaded.raised THEN <<>>
        ELSE LET majors == MajorsOf(loaded.value)
             IN  IF majors.is_list
                 THEN SortedStrings({Get(majors.value[k], "major", <<>>) :
                          k \in {j \in 1..Len(majors.value) :
                                    ~Falsy(Get(majors.value[j], "major", <<>>))}})
                 ELSE <<>>

\* the literals of the error message
StrMajorQuote == <<"M", "a", "j", "o", "r", " ", "'">>
StrNotFoundAt == <<"'", " ", "n", "o", "t", " ", "f", "o", "u", "n", "d", " ", "a", "t", " ", "'">>
StrQuote == <<"'">>

\* {c.code for c in courses}
CodeSet(courses) == {courses[k].code : k \in 1..Len(courses)}

\* sum(1 for r in requirement_results if r.is_satisfied)
CountSatisfied(results) == Cardinality({k \in 1..Len(results) : results[k].is_satisfied})

\* sum(1 for r in requirement_results if r.is_pending and not r.is_satisfied)
CountPending(results) ==
    Cardinality({k \in 1..Len(results) : results[k].is_pending /\ ~results[k].is_satisfied})

\* MajorAuditEngine.audit
major_audit(cache, files, student_state, university_name, major_name) ==
    LET major_data == find_major(cache, files, university_name, major_name)
    IN  IF Falsy(major_data)
        THEN [error |-> StrMajorQuote \o major_name \o StrNotFoundAt
                            \o university_name \o StrQuote,
              available_majors |-> Prefix(list_majors(cache, files, university_name), 10)]
        ELSE LET completed_codes == CodeSet(student_state.completed)
                 pending_codes == CodeSet(student_state.in_progress)
                 requirements == Get(major_data, "requirements", <<>>)
                 requirement_results ==
                     [k \in 1..Len(requirements) |->
                         _audit_requirement(requirements[k], completed_codes, pending_codes)]
                 total_reqs == Len(requirement_results)
                 satisfied_reqs == CountSatisfied(requirement_results)
                 pending_reqs == CountPending(requirement_results)
                 names == Get(Get(major_data, "university", EmptyDict), "names",
                              <<EmptyDict>>)
             IN  [major |-> Get(major_data, "major", major_name),
                  university |-> Get(names[1], "name", university_name),
                  requirements |-> requirement_results,
                  overall_satisfied |->
                      \A k \in 1..Len(requirement_results) :
                          requirement_results[k].is_satisfied,
                  \* satisfied_reqs / total_reqs * 100, as a fraction
                  completion_percentage |->
                      IF total_reqs > 0
                      THEN [num |-> satisfied_reqs * 100, den |-> total_reqs]
                      ELSE [num |-> 0, den |-> 1],
                  satisfied_count |-> satisfied_reqs,
                  pending_count |-> pending_reqs,
                  total_count |-> total_reqs,
                  general_notes |-> Get(major_data, "general_texts", <<>>)]

----------------------------------------------------------------------------
(* The catalog of the recommendation and multi-target engines              *)

\* the codes of the SMC courses
Art1 == <<"A", "R", "T", " ", "1">>
Hist10 == <<"H", "I", "S", "T", " ", "1", "0">>
Span1 == <<"S", "P", "A", "N", " ", "1">>
Econ1 == <<"E", "C", "O", "N", " ", "1">>
Econ2 == <<"E", "C", "O", "N", " ", "2">>
Cs20 == <<"C", "S", " ", "2", "0">>
Geog1 == <<"G", "E", "O", "G", " ", "1">>

\* the SMC courses of the catalog with their transfer areas in the raw GE
\* files: HIST 10 counts for the ordinary areas 3B and 4, SPAN 1 for the
\* exempt pair 3B and 6A, CS 20 for no GE area
CatalogCourses == <<
    [code |-> Art1, areas |-> << <<"3", "A">> >>],
    [code |-> Hist10, areas |-> << <<"3", "B">>, <<"4">> >>],
    [code |-> Span1, areas |-> << <<"3", "B">>, <<"6", "A">> >>],
    [code |-> Econ1, areas |-> << <<"4">> >>],
    [code |-> Econ2, areas |-> << <<"4">> >>],
    [code |-> Cs20, areas |-> << >>] >>

\* the date _build_ge_course_lookup takes as the current date
CurrentDate == <<"2", "0", "2", "5", "-", "0", "1", "-", "0", "1", "T", "0", "0", ":", "0", "0", ":", "0", "0">>

\* a raw GE file: the courseInformationList of the catalog courses that have
\* a transfer area, and a course whose listing ended in 2020
RawGeFile ==
    [courseInformationList |->
        [k \in 1..5 |->
            [identifier |-> CatalogCourses[k].code,
             transferAreas |->
                 [j \in 1..Len(CatalogCourses[k].areas) |->
                     [code |-> CatalogCourses[k].areas[j]]]]]
        \o << [identifier |-> Geog1,
               endDate |-> <<"2", "0", "2", "0", "-", "0", "6", "-", "3", "0", "T", "0", "0", ":", "0", "0", ":", "0", "0">>,
               transferAreas |-> << [code |-> <<"4">>] >>] >>]

\* the raw_GE folder: the scraper writes IGETC files for every year and
\* CALGETC files from the year code 76 on
RawGeFolder ==
    [key \in {<<"IGETC", 75>>, <<"IGETC", 76>>, <<"CALGETC", 76>>} |-> RawGeFile]

\* DataLoader.load_raw_ge: the file named f"{ge_type}_{year_code}.json", or
\* FileNotFoundError
load_raw_ge(folder, ge_type, year_code) ==
    IF <<ge_type, year_code>> \in DOMAIN folder
    THEN [raised |-> FALSE, value |-> folder[<<ge_type, year_code>>]]
    ELSE [raised |-> TRUE, exc |-> "FileNotFoundError"]

\* the loop over transferAreas of _build_ge_course_lookup: the current area
\* codes of a course, without repetition
RECURSIVE TransferAreaLoop(_, _, _)
TransferAreaLoop(transfer_areas, i, acc) ==
    IF i > Len(transfer_areas) THEN acc
    ELSE LET area_code == Get(transfer_areas[i], "code", <<>>)
             area_end == Get(transfer_areas[i], "endDate", <<"2", "0", "7", "0", "-", "0", "1", "-", "0", "1", "T", "0", "0", ":", "0", "0", ":", "0", "0">>)
         IN  TransferAreaLoop(transfer_areas, i + 1,
                 IF /\ ~StrLess(area_end, CurrentDate)
                    /\ ~Falsy(area_code)
                    /\ area_code \notin Range(acc)
                 THEN Append(acc, area_code) ELSE acc)

\* the loop over the courses of one raw GE file: lookup[code][attr_key]
RECURSIVE LookupCourseLoop(_, _, _, _)
LookupCourseLoop(courses, i, attr_key, lookup) ==
    IF i > Len(courses) THEN lookup
    ELSE LET code == Get(courses[i], "identifier", <<>>)
             end_date == Get(courses[i], "endDate", <<"2", "0", "7", "0", "-", "0", "1", "-", "0", "1", "T", "0", "0", ":", "0", "0", ":", "0", "0">>)
             entry == IF code \in DOMAIN lookup THEN lookup[code]
                      ELSE [IGETC |-> <<>>, CALGETC |-> <<>>, CSUGE |-> <<>>, CSUAI |-> <<>>]
             areas == TransferAreaLoop(Get(courses[i], "transferAreas", <<>>), 1,
                                       entry[attr_key])
         IN  LookupCourseLoop(courses, i + 1, attr_key,
                 IF Falsy(code) \/ StrLess(end_date, CurrentDate) THEN lookup
                 ELSE [c \in DOMAIN lookup \cup {code} |->
                          IF c = code THEN [entry EXCEPT ![attr_key] = areas]
                          ELSE lookup[c]])

\* the loop over the four GE file types; a type with no file for the year is
\* passed over
RECURSIVE GeTypeLoop(_, _, _, _, _)
GeTypeLoop(folder, year_code, ge_types, i, lookup) ==
    IF i > Len(ge_types) THEN lookup
    ELSE LET loaded == load_raw_ge(folder, ge_types[i], year_code)
         IN  GeTypeLoop(folder, year_code, ge_types, i + 1,
                 IF loaded.raised THEN lookup
                 ELSE LookupCourseLoop(Get(loaded.value, "courseInformationList", <<>>),
                                       1, ge_types[i], lookup))

_build_ge_course_lookup(folder, year_code) ==
    GeTypeLoop(folder, year_code, <<"IGETC", "CALGETC", "CSUGE", "CSUAI">>, 1, EmptyDict)

\* the dict get_course_ge_attributes returns for a course of the lookup
GeAttributes(lookup, course_code) ==
    LET course_attrs == Get(lookup, course_code, EmptyDict)
    IN  [IGETC |-> Get(course_attrs, "IGETC", <<>>),
         CALGETC |-> Get(course_attrs, "CALGETC", <<>>),
         CSUGE |-> Get(course_attrs, "CSUGE", <<>>),
         CSUAI |-> Get(course_attrs, "CSUAI", <<>>)]

get_course_ge_attributes(folder, course_code, year_code) ==
    GeAttributes(_build_ge_course_lookup(folder, year_code), course_code)

\* the Course the parser builds for a catalog course: its GE tags are those
\* of the raw GE files of the parser's year code
CatalogCourse(folder, k, status, year_code) ==
    LET ge_attrs == get_course_ge_attributes(folder, CatalogCourses[k].code, year_code)
    IN  [code |-> CatalogCourses[k].code, units |-> 3, status |-> status,
         igetc |-> ge_attrs.IGETC, cal_getc |-> ge_attrs.CALGETC]

\* the catalog courses at the positions idx, in catalog order
CatalogCoursesAt(folder, idx, status, year_code) ==
    LET chosen == SelectSeq([i \in 1..Len(CatalogCourses) |-> i], LAMBDA i : i \in idx)
    IN  [k \in 1..Len(chosen) |-> CatalogCourse(folder, chosen[k], status, year_code)]

\* the student states over the catalog courses at the given positions: each
\* of them is completed, in progress or not taken
CatalogStudents(folder, year_code, positions) ==
    {[completed |-> CatalogCoursesAt(folder, cp[1], "COMPLETED", year_code),
      in_progress |-> CatalogCoursesAt(folder, cp[2], "IN_PROGRESS", year_code)] :
        cp \in {x \in (SUBSET positions) \X (SUBSET positions) : x[1] \cap x[2] = {}}}

----------------------------------------------------------------------------
(* The articulation files                                                  *)

CsuLongBeach == <<"C", "S", "U", " ", "L", "o", "n", "g", " ", "B", "e", "a", "c", "h">>
UcLosAngeles == <<"U", "C", " ", "L", "o", "s", " ", "A", "n", "g", "e", "l", "e", "s">>
CsuNorthridge == <<"C", "S", "U", " ", "N", "o", "r", "t", "h", "r", "i", "d", "g", "e">>
UcDavis == <<"U", "C", " ", "D", "a", "v", "i", "s">>
CsuChico == <<"C", "S", "U", " ", "C", "h", "i", "c", "o">>

\* an item of type COURSE as the processor writes it
CourseItem(code, title, smc_options) ==
    [type |-> "COURSE",
     university_course |-> [code |-> code, title |-> title],
     smc_options |-> smc_options,
     articulation_type |-> IF smc_options = << >> THEN "No Articulation"
                           ELSE "Articulated"]

\* Economics at Long Beach: one of two economics courses, and a history course
LbEconomics ==
    [major |-> <<"E", "c", "o", "n", "o", "m", "i", "c", "s">>,
     university |-> [names |-> << [name |-> <<"C", "a", "l", "i", "f", "o", "r", "n", "i", "a", " ", "S", "t", "a", "t", "e", " ", "U", "n", "i", "v", "e", "r", "s", "i", "t", "y", ",", " ", "L", "o", "n", "g", " ", "B", "e", "a", "c", "h">>] >>],
     general_texts |-> << >>,
     requirements |-> <<
        [id |-> "E1", rule |-> [logic |-> "ONE_OF", min_count |-> <<1>>],
         items |-> << CourseItem(<<"E", "C", "O", "N", " ", "1", "0", "1">>, <<"M", "i", "c", "r", "o">>, << Group(<<Econ1>>) >>),
                      CourseItem(<<"E", "C", "O", "N", " ", "1", "0", "2">>, <<"M", "a", "c", "r", "o">>, << Group(<<Econ2>>) >>) >>],
        [id |-> "E2", rule |-> [logic |-> "ALL_OF", min_count |-> None],
         items |-> << CourseItem(<<"H", "I", "S", "T", " ", "1", "7", "2">>, << >>, << Group(<<Hist10>>) >>) >>] >>]

\* Economic Policy at Long Beach: an economics and a history course
LbEconomicPolicy ==
    [major |-> <<"E", "c", "o", "n", "o", "m", "i", "c", " ", "P", "o", "l", "i", "c", "y">>,
     university |-> [names |-> << [name |-> <<"C", "a", "l", "i", "f", "o", "r", "n", "i", "a", " ", "S", "t", "a", "t", "e", " ", "U", "n", "i", "v", "e", "r", "s", "i", "t", "y", ",", " ", "L", "o", "n", "g", " ", "B", "e", "a", "c", "h">>] >>],
     requirements |-> <<
        [id |-> "P1", rule |-> [logic |-> "ALL_OF", min_count |-> None],
         items |-> << CourseItem(<<"E", "C", "O", "N", " ", "3", "0", "0">>, <<"P", "o", "l", "i", "c", "y">>, << Group(<<Econ1>>) >>),
                      CourseItem(<<"H", "I", "S", "T", " ", "1", "7", "2">>, << >>, << Group(<<Hist10>>) >>) >>] >>]

\* History at Long Beach: either the two economics courses taken together or
\* Spanish; and an art course with a course that has no articulation
LbHistory ==
    [major |-> <<"H", "i", "s", "t", "o", "r", "y">>,
     university |-> EmptyDict,
     requirements |-> <<
        [id |-> "H1", rule |-> [logic |-> "ONE_OF", min_count |-> <<1>>],
         items |-> << CourseItem(<<"H", "I", "S", "T", " ", "2", "0", "1">>, <<"T", "r", "a", "d", "e">>, << Group(<<Econ1, Econ2>>) >>),
                      CourseItem(<<"H", "I", "S", "T", " ", "2", "0", "2">>, << >>, << Group(<<Span1>>) >>) >>],
        [id |-> "H2", rule |-> [logic |-> "AT_LEAST_N", min_count |-> <<1>>],
         items |-> << CourseItem(<<"A", "R", "T", " ", "1", "1", "0">>, << >>, << Group(<<Art1>>), Group(<<Hist10>>) >>),
                      CourseItem(<<"A", "R", "T", " ", "1", "2", "0">>, <<"S", "t", "u", "d", "i", "o">>, << >>) >>] >>]

\* Economics at Los Angeles
LaEconomics ==
    [major |-> <<"E", "c", "o", "n", "o", "m", "i", "c", "s">>,
     university |-> [names |-> << [name |-> <<"U", "n", "i", "v", "e", "r", "s", "i", "t", "y", " ", "o", "f", " ", "C", "a", "l", "i", "f", "o", "r", "n", "i", "a", ",", " ", "L", "o", "s", " ", "A", "n", "g", "e", "l", "e", "s">>] >>],
     requirements |-> <<
        [id |-> "U1", rule |-> [logic |-> "ALL_OF", min_count |-> None],
         items |-> << CourseItem(<<"E", "C", "O", "N", " ", "1", "1">>, << >>, << Group(<<Econ1>>) >>),
                      CourseItem(<<"P", "I", "C", " ", "1", "0">>, <<"C", "o", "d", "e">>, << Group(<<Cs20>>) >>) >>] >>]

\* the names of the majors of a file that lists more than ten of them, one of
\* them twice, an entry with an empty name and an entry with no name
NorthridgeNames == <<
    <<"M", "u", "s", "i", "c">>, <<"A", "r", "t">>, <<"F", "i", "l", "m">>, <<"L", "a", "w">>, <<"N", "u", "r", "s", "i", "n", "g">>, <<"T", "h", "e", "a", "t", "e", "r">>,
    <<"E", "n", "g", "l", "i", "s", "h">>, <<"A", "r", "t">>, <<"R", "e", "l", "i", "g", "i", "o", "n">>, << >>, <<"S", "p", "a", "n", "i", "s", "h">>, <<"P", "h", "y", "s", "i", "c", "s">>,
    <<"G", "e", "o", "l", "o", "g", "y">>, <<"U", "r", "b", "a", "n", " ", "S", "t", "u", "d", "i", "e", "s">>, <<"I", "t", "a", "l", "i", "a", "n">> >>

NorthridgeMajors ==
    [k \in 1..Len(NorthridgeNames) |->
        [major |-> NorthridgeNames[k], requirements |-> << >>]]
    \o << [requirements |-> << >>] >>

\* the clean_majors folder: two files with a majors list, a file that is a
\* bare list, and a file with no majors key
MajorsFolder ==
    [u \in {CsuLongBeach, UcLosAngeles, CsuNorthridge, UcDavis} |->
        IF u = CsuLongBeach
        THEN [is_dict |-> TRUE,
              value |-> [meta |-> EmptyDict,
                         majors |-> <<LbEconomics, LbEconomicPolicy, LbHistory>>]]
        ELSE IF u = UcLosAngeles
        THEN [is_dict |-> TRUE,
              value |-> [meta |-> EmptyDict, majors |-> <<LaEconomics>>]]
        ELSE IF u = CsuNorthridge
        THEN [is_dict |-> FALSE, value |-> NorthridgeMajors]
        ELSE [is_dict |-> TRUE, value |-> [meta |-> EmptyDict]]]

\* the universities and the major names a caller asks for
AskedUniversities == {CsuLongBeach, UcLosAngeles, CsuNorthridge, UcDavis, CsuChico}
AskedMajors ==
    {<<"E", "c", "o", "n", "o", "m", "i", "c", "s">>, <<"E", "C", "O", "N", "O", "M", "I", "C", "S">>, <<"e", "c", "o", "n", "o", "m", "i", "c", " ", "p", "o", "l", "i", "c", "y">>, <<"H", "i", "s", "t", "o", "r", "y">>, <<"h", "I", "s", "T", "o", "R", "y">>,
     <<"U", "r", "b", "a", "n", " ", "S", "t", "u", "d", "i", "e", "s">>, <<"Z", "o", "o", "l", "o", "g", "y">>, <<"E", "c", "o", "n", "o", "m", "i", "c">>}

\* MajorAuditEngine.audit on the articulation files
MajorAudit ==
    /\ majorAudit.pc = "call"
    /\ majorAudit' = [majorAudit EXCEPT
          !.pc = "done",
          !.result = major_audit(loader.majors_cache, disk.majors,
                                 majorAudit.student_state,
                                 majorAudit.university_name, majorAudit.major_name)]
    /\ loader' = [loader EXCEPT !.majors_cache =
                     MajorsCacheAfter(@, disk.majors, majorAudit.university_name)]
    /\ UNCHANGED <<pat, match, disk, geRules, ge, major, parsed, rec, mt, disc>>

----------------------------------------------------------------------------
(* Claims about MajorAuditEngine.audit                                     *)

\* the major entries of the file of the university asked for
AskedEntries ==
    LET u == majorAudit.university_name
    IN  IF u \notin DOMAIN disk.majors THEN << >>
        ELSE IF ~disk.majors[u].is_dict THEN disk.majors[u].value
        ELSE IF "majors" \in DOMAIN disk.majors[u].value
        THEN disk.majors[u].value.majors
        ELSE << >>

\* the positions of the entries whose name is the name asked for, letter case
\* aside
AskedMatches ==
    {k \in 1..Len(AskedEntries) :
        /\ "major" \in DOMAIN AskedEntries[k]
        /\ SameIgnoringCase(AskedEntries[k].major, majorAudit.major_name)}

\* the names a file lists
AskedNames ==
    {AskedEntries[k].major :
        k \in {j \in 1..Len(AskedEntries) :
                  "major" \in DOMAIN AskedEntries[j] /\ AskedEntries[j].major # << >>}}

\* C11: MajorAuditEngine.audit returns, for an unknown university or major, an
\* error result with a message and at most 10 of the file's major names (none
\* for an unknown university), and audits a major whose name differs from a
\* catalog major in letter case only.
C11_UnknownMajorIsAnErrorResult ==
    majorAudit.pc = "done" =>
        LET r == majorAudit.result
        IN  /\ AskedMatches = {} =>
                /\ DOMAIN r = {"error", "available_majors"}
                /\ Len(r.error) > 0
                /\ Len(r.available_majors) <= 10
                /\ Range(r.available_majors) \subseteq AskedNames
                /\ Cardinality(AskedNames) <= 10 =>
                       Range(r.available_majors) = AskedNames
                /\ majorAudit.university_name \notin DOMAIN disk.majors =>
                       r.available_majors = << >>
            /\ AskedMatches # {} =>
                LET first == CHOOSE k \in AskedMatches : \A j \in AskedMatches : k <= j
                IN  /\ "error" \notin DOMAIN r
                    /\ r.major = AskedEntries[first].major
                    /\ r.total_count = Len(AskedEntries[first].requirements)
                    /\ Len(r.requirements) = r.total_count

\* an unknown major at a university whose file lists more than ten names
C11_Witness ==
    /\ majorAudit.pc = "done"
    /\ majorAudit.university_name = CsuNorthridge
    /\ majorAudit.major_name = <<"Z", "o", "o", "l", "o", "g", "y">>
    /\ "error" \in DOMAIN majorAudit.result
    /\ Len(majorAudit.result.available_majors) = 10
    /\ Cardinality(AskedNames) > 10

----------------------------------------------------------------------------
(* CourseRecommendationEngine.recommend_ge_courses                          *)

\* sub occurs in s at position i
OccursAt(s, sub, i) ==
    /\ i + Len(sub) - 1 <= Len(s)
    /\ \A j \in 1..Len(sub) : s[i + j - 1] = sub[j]

\* str.find + 1: the first position of sub in s, 0 when there is none
Find(s, sub) ==
    IF \E i \in 1..Len(s) : OccursAt(s, sub, i)
    THEN CHOOSE i \in 1..Len(s) :
            OccursAt(s, sub, i) /\ \A j \in 1..(i - 1) : ~OccursAt(s, sub, j)
    ELSE 0

\* sub in s, for a non-empty sub
Contains(s, sub) == Find(s, sub) # 0

\* str.split(sep)
RECURSIVE Split(_, _)
Split(s, sep) ==
    LET i == Find(s, sep)
    IN  IF i = 0 THEN <<s>>
        ELSE <<SubSeq(s, 1, i - 1)>> \o Split(SubSeq(s, i + Len(sep), Len(s)), sep)

\* str.strip() of blanks
RECURSIVE Strip(_)
Strip(s) ==
    IF Len(s) = 0 THEN s
    ELSE IF s[1] = " " THEN Strip(Tail(s))
    ELSE IF s[Len(s)] = " " THEN Strip(SubSeq(s, 1, Len(s) - 1))
    ELSE s

\* str.upper() of a pattern key: "IGETC" and "CALGETC" are in upper case
\* already, "CalGETC" becomes "CALGETC", "cal_getc" becomes "CAL_GETC"
UpperKey(pattern_key) ==
    IF pattern_key = "CalGETC" THEN "CALGETC"
    ELSE IF pattern_key = "cal_getc" THEN "CAL_GETC"
    ELSE pattern_key

\* the subarea codes the notes of an area mark as not satisfied:
\* notes.split("Subareas:")[1].strip().split(" | "), and of each part that
\* holds the ballot x, part.split(" ")[0].strip()
MissingSubareas(notes) ==
    LET subarea_info == Strip(Split(notes, StrSubareas)[2])
        subarea_parts == Split(subarea_info, <<" ", "|", " ">>)
        marked == SelectSeq(subarea_parts, LAMBDA part : Contains(part, <<CrossMark>>))
    IN  [k \in 1..Len(marked) |-> Strip(Split(marked[k], <<" ">>)[1])]

\* the loop over transferAreas of get_courses_for_ge_area: the course is
\* appended to the list of every area it is listed for
RECURSIVE AreaToCoursesAreaLoop(_, _, _, _)
AreaToCoursesAreaLoop(course, transfer_areas, i, area_to_courses) ==
    IF i > Len(transfer_areas) THEN area_to_courses
    ELSE LET ac == Get(transfer_areas[i], "code", <<>>)
             entry == [code |-> Get(course, "identifier", <<>>),
                       ge_areas |-> [j \in 1..Len(transfer_areas) |->
                                        Get(transfer_areas[j], "code", <<>>)]]
         IN  AreaToCoursesAreaLoop(course, transfer_areas, i + 1,
                 [a \in DOMAIN area_to_courses \cup {ac} |->
                     IF a = ac THEN Append(Get(area_to_courses, ac, <<>>), entry)
                     ELSE area_to_courses[a]])

\* the loop over course_list of get_courses_for_ge_area
RECURSIVE AreaToCoursesLoop(_, _, _)
AreaToCoursesLoop(course_list, i, area_to_courses) ==
    IF i > Len(course_list) THEN area_to_courses
    ELSE AreaToCoursesLoop(course_list, i + 1,
             AreaToCoursesAreaLoop(course_list[i],
                                   Get(course_list[i], "transferAreas", <<>>), 1,
                                   area_to_courses))

\* get_courses_for_ge_area: cache is the engine's _ge_course_cache; raises
\* the loader's FileNotFoundError when the raw GE file is absent
get_courses_for_ge_area(cache, folder, area_code, year_code, pattern_key) ==
    LET cache_key == <<year_code, pattern_key>>
    IN  IF cache_key \in DOMAIN cache
        THEN [raised |-> FALSE, value |-> Get(cache[cache_key], area_code, <<>>)]
        ELSE LET loaded == load_raw_ge(folder, pattern_key, year_code)
             IN  IF loaded.raised THEN loaded
                 ELSE IF Falsy(loaded.value) THEN [raised |-> FALSE, value |-> <<>>]
                 ELSE LET area_to_courses ==
                              AreaToCoursesLoop(
                                  Get(loaded.value, "courseInformationList", <<>>),
                                  1, EmptyDict)
                      IN  [raised |-> FALSE,
                           value |-> Get(area_to_courses, area_code, <<>>)]

\* _ge_course_cache after get_courses_for_ge_area
GeCourseCacheAfter(cache, folder, year_code, pattern_key) ==
    LET cache_key == <<year_code, pattern_key>>
        loaded == load_raw_ge(folder, pattern_key, year_code)
    IN  IF cache_key \in DOMAIN cache \/ loaded.raised \/ Falsy(loaded.value)
        THEN cache
        ELSE [k \in DOMAIN cache \cup {cache_key} |->
                 IF k = cache_key
                 THEN AreaToCoursesLoop(
                          Get(loaded.value, "courseInformationList", <<>>), 1, EmptyDict)
                 ELSE cache[k]]

\* the loop over available of _recommend_for_area: the course options, which
\* leave out the student's courses and the courses already used for GE, but
\* for a course of the pair 3B and 6A
RECURSIVE CourseOptionLoop(_, _, _, _, _)
CourseOptionLoop(available, i, area_code, all_student_codes, used_courses) ==
    IF i > Len(available) THEN <<>>
    ELSE LET course_info == available[i]
             code == course_info.code
             course_areas == Get(course_info, "ge_areas", <<>>)
             rest == CourseOptionLoop(available, i + 1, area_code,
                                      all_student_codes, used_courses)
         IN  IF code \in all_student_codes THEN rest
             ELSE IF /\ code \in used_courses
                     /\ ~(/\ area_code \in {<<"3", "B">>, <<"6", "A">>}
                          /\ \/ <<"3", "B">> \in Range(course_areas)
                             \/ <<"6", "A">> \in Range(course_areas))
             THEN rest
             ELSE <<[code |-> code, ge_areas |-> course_areas]>> \o rest

\* _recommend_for_area: None, or the AreaRecommendation (a course option is
\* carried as its code and its ge_areas)
_recommend_for_area(ctx, area_code, area_name, courses_needed, is_subarea) ==
    LET available == get_courses_for_ge_area(ctx.cache, ctx.folder, area_code,
                                             ctx.year_code, ctx.pattern_key)
    IN  IF available.raised THEN available
        ELSE LET course_options ==
                     SortByCode(CourseOptionLoop(available.value, 1, area_code,
                                                 ctx.all_student_codes, ctx.used_courses))
             IN  [raised |-> FALSE,
                  value |-> IF Len(course_options) = 0 THEN None
                            ELSE [area_code |-> area_code,
                                  area_name |-> area_name,
                                  courses_needed |-> courses_needed,
                                  available_courses |-> course_options,
                                  subarea_code |-> IF is_subarea THEN area_code
                                                   ELSE <<>>]]

\* the loop over the parts of the notes of an area with subareas
RECURSIVE SubareaRecLoop(_, _, _, _, _)
SubareaRecLoop(ctx, area, subarea_codes, i, recommendations) ==
    IF i > Len(subarea_codes) THEN [raised |-> FALSE, value |-> recommendations]
    ELSE LET sub_rec == _recommend_for_area(ctx, subarea_codes[i], area.name, 1, TRUE)
         IN  IF sub_rec.raised THEN sub_rec
             ELSE SubareaRecLoop(ctx, area, subarea_codes, i + 1,
                      IF sub_rec.value = None THEN recommendations
                      ELSE Append(recommendations, sub_rec.value))

\* the loop over the areas of the GE audit result
RECURSIVE AreaRecLoop(_, _, _, _)
AreaRecLoop(ctx, areas, i, recommendations) ==
    IF i > Len(areas) THEN [raised |-> FALSE, value |-> recommendations]
    ELSE LET area == areas[i]
             courses_needed == area.required_courses - Len(area.completed_courses)
         IN  IF area.is_satisfied THEN AreaRecLoop(ctx, areas, i + 1, recommendations)
             ELSE IF Contains(area.notes, StrSubareas)
             THEN LET subs == SubareaRecLoop(ctx, area, MissingSubareas(area.notes), 1,
                                             recommendations)
                  IN  IF subs.raised THEN subs
                      ELSE AreaRecLoop(ctx, areas, i + 1, subs.value)
             ELSE LET rec_area == _recommend_for_area(ctx, area.code, area.name,
                                                      courses_needed, FALSE)
                  IN  IF rec_area.raised THEN rec_area
                      ELSE AreaRecLoop(ctx, areas, i + 1,
                               IF rec_area.value = None THEN recommendations
                               ELSE Append(recommendations, rec_area.value))

\* the pattern key of the raw GE files, from the pattern key of a GE audit
RawGeKey(ge_audit_result) ==
    LET pattern_key == UpperKey(Get(ge_audit_result, "pattern_key", "IGETC"))
    IN  IF pattern_key = "IGETC" THEN "IGETC"
        ELSE IF pattern_key = "cal_getc" \/ pattern_key = "CALGETC" THEN "CALGETC"
        ELSE pattern_key

\* the codes of the courses the GE audit counted or holds pending
UsedCourses(areas) ==
    UNION {CodeSet(areas[k].completed_courses) \cup CodeSet(areas[k].pending_courses) :
              k \in 1..Len(areas)}

\* recommend_ge_courses: the list of AreaRecommendation, or the exception
recommend_ge_courses(cache, folder, ge_audit_result, student_state, year_code) ==
    LET completed_codes == CodeSet(student_state.completed)
        pending_codes == CodeSet(student_state.in_progress)
        ctx == [cache |-> cache, folder |-> folder, year_code |-> year_code,
                pattern_key |-> RawGeKey(ge_audit_result),
                completed_codes |-> completed_codes,
                pending_codes |-> pending_codes,
                all_student_codes |-> completed_codes \cup pending_codes,
                used_courses |-> UsedCourses(ge_audit_result.areas)]
    IN  AreaRecLoop(ctx, ge_audit_result.areas, 1, <<>>)

----------------------------------------------------------------------------
(* The GE rules of the catalog and the calls of recommend_ge_courses        *)

\* the subareas of Arts and Humanities
ArtsSubareas == <<
    [code |-> <<"3", "A">>, data |-> [name |-> <<"A", "r", "t", "s">>, min_courses |-> 1]],
    [code |-> <<"3", "B">>, data |-> [name |-> <<"H", "u", "m">>, min_courses |-> 1]] >>

\* Arts and Humanities: the area 3 with one course of each subarea
ArtsArea ==
    [code |-> <<"3">>, data |->
        [name |-> <<"A", "r", "t", "s", " ", "a", "n", "d", " ", "H", "u", "m">>,
         per_target |-> PerTarget(
            [min_courses |-> 2, min_units_semester |-> 6,
             required_subareas |-> << <<"3", "A">>, <<"3", "B">> >>],
            [min_courses |-> 2, min_units_semester |-> 6,
             required_subareas |-> << <<"3", "A">>, <<"3", "B">> >>]),
         subareas |-> ArtsSubareas]]

\* Social Sciences: the area 4 without subareas
SocialArea ==
    [code |-> <<"4">>, data |->
        [name |-> <<"S", "o", "c">>,
         per_target |-> PerTarget(
            [min_courses |-> 2, min_units_semester |-> 6],
            [min_courses |-> 2, min_units_semester |-> 6])]]

\* Language other than English: the area 6, for UC only, with the subarea 6A
LanguageArea ==
    [code |-> <<"6">>, data |->
        [name |-> <<"L", "O", "T", "E">>,
         per_target |-> PerTarget(
            [required |-> FALSE],
            [min_courses |-> 1, min_units_semester |-> 3]),
         subareas |-> << [code |-> <<"6", "A">>, data |-> [name |-> <<"L", "O", "T", "E">>]] >>]]

\* the rule file of the catalog: no year override
CatalogGeRules ==
    [systems |->
        [IGETC |-> [pattern_name |-> "IGETC for UC and CSU",
                    areas |-> <<ArtsArea, SocialArea, LanguageArea>>],
         CalGETC |-> [pattern_name |-> "Cal-GETC",
                      areas |-> <<ArtsArea, SocialArea>>]]]

\* the entry years of the catalog students: IGETC and Cal-GETC
CatalogEntryYears == {2023, 2025}

\* the year codes a recommendation is asked for: the catalog has the IGETC
\* files of both and the CALGETC file of the second
CatalogYearCodes == {75, 76}

\* the GE audit of a catalog student on the freshly loaded rules
CatalogGeAudit(student_state, entry_year, target_system) ==
    audit(NotLoaded, CatalogGeRules, student_state, entry_year, <<"F", "a", "l", "l">>,
          target_system).result

\* the recommendation engine's call of recommend_ge_courses
RecommendGeCourses ==
    /\ rec.pc = "call"
    /\ rec.op = "recommend_ge_courses"
    /\ rec' = [rec EXCEPT !.pc = "done",
                  !.result = recommend_ge_courses(rec.ge_course_cache, disk.raw_ge,
                                 rec.ge_audit_result, rec.student_state, rec.year_code),
                  !.ge_course_cache = GeCourseCacheAfter(@, disk.raw_ge, rec.year_code,
                                          RawGeKey(rec.ge_audit_result))]
    /\ UNCHANGED <<pat, match, disk, geRules, ge, major, parsed, loader, majorAudit, mt, disc>>

----------------------------------------------------------------------------
(* Claims about recommend_ge_courses                                        *)

\* the call asks for a raw GE file the catalog does not have
RawGeFileAbsent(folder, ge_audit_result, year_code) ==
    <<RawGeKey(ge_audit_result), year_code>> \notin DOMAIN folder

\* C12: when the raw GE file of the pattern key and the year code of the
\* call is absent from the catalog, recommend_ge_courses still returns a
\* list: the loader's FileNotFoundError does not reach the caller
C12_AbsentGeFileIsRecovered ==
    (/\ rec.pc = "done"
     /\ rec.op = "recommend_ge_courses"
     /\ RawGeFileAbsent(disk.raw_ge, rec.ge_audit_result, rec.year_code))
        => ~rec.result.raised

\* the double-count-exempt pair of areas
ExemptPair == {<<"3", "B">>, <<"6", "A">>}

\* C14: in the list recommend_ge_courses returns, a course is among the
\* available_courses of two recommendations only when these are for the
\* exempt pair 3B and 6A: a course tagged for two ordinary areas is offered
\* for the first of them only
C14_OrdinaryCourseInOneArea ==
    (/\ rec.pc = "done"
     /\ rec.op = "recommend_ge_courses"
     /\ ~rec.result.raised)
        => \A i, j \in 1..Len(rec.result.value) :
              (/\ i < j
               /\ CodeSet(rec.result.value[i].available_courses)
                    \cap CodeSet(rec.result.value[j].available_courses) # {})
                 => {rec.result.value[i].area_code, rec.result.value[j].area_code}
                        = ExemptPair

----------------------------------------------------------------------------
(* A sequence of GE audits on one DataLoader                                *)

\* the number of audits one loader serves
MaxCalls == 2

\* the students of the sequence: no course, or two completed courses of area 4
SeqStudents ==
    {[completed |-> PoolCourses(c, "COMPLETED"), in_progress |-> <<>>] : c \in {{}, {4, 5}}}

\* the caller's next GEAuditEngine.audit call on the same loader
GeNextCall ==
    /\ ge.pc = "done"
    /\ ge.calls < MaxCalls
    /\ \E st \in SeqStudents, y \in GeEntryYears, ts \in TargetSystems :
          ge' = [pc |-> "call", student_state |-> st, entry_year |-> y,
                 entry_term |-> ge.entry_term, target_system |-> ts,
                 result |-> EmptyDict, calls |-> ge.calls + 1]
    /\ UNCHANGED <<pat, match, disk, geRules, major, parsed, loader, majorAudit, rec, mt, disc>>

\* the result of the last call on a freshly loaded catalog
FreshResult ==
    audit(NotLoaded, disk.ge_rules, ge.student_state, ge.entry_year, ge.entry_term,
          ge.target_system).result

\* C13: every audit of a sequence on one DataLoader returns what the same
\* call returns on a freshly loaded catalog: the year override of an earlier
\* call does not reach a later one
C13_AuditLeavesRulesUnchanged ==
    ge.pc = "done" => ge.result = FreshResult

----------------------------------------------------------------------------
(* CourseRecommendationEngine.cross_reference_ge_and_major                  *)

\* STEP 1: the codes of the unsatisfied areas, and for an area with subareas
\* the codes of the subareas its notes mark as not satisfied
RECURSIVE MissingGeAreasLoop(_, _)
MissingGeAreasLoop(areas, i) ==
    IF i > Len(areas) THEN {}
    ELSE LET area == areas[i]
             rest == MissingGeAreasLoop(areas, i + 1)
         IN  IF area.is_satisfied THEN rest
             ELSE IF Contains(area.notes, StrSubareas)
             THEN Range(MissingSubareas(area.notes)) \cup rest
             ELSE {area.code} \cup rest

\* f"{uni_code}: {uni_title}" if uni_title else uni_code
MajorDesc(item) ==
    LET uni_course == Get(item, "university_course", EmptyDict)
        uni_code == Get(uni_course, "code", <<>>)
        uni_title == Get(uni_course, "title", <<>>)
    IN  IF Len(uni_title) > 0 THEN uni_code \o <<":", " ">> \o uni_title ELSE uni_code

\* the missing items of a requirement that have SMC options
ArticulatedMissing(req) ==
    SelectSeq(Get(req.items, "missing", <<>>),
              LAMBDA item : /\ Len(Get(item, "smc_options", <<>>)) > 0
                            /\ Get(item, "articulation_type", "") # "NO_ARTICULATION")

\* requirement_groups[req_id]["items"] when the loops are over; every
\* req_info of the requirement holds this one list as its all_items
RequirementItems(req) ==
    LET items == ArticulatedMissing(req)
    IN  [k \in 1..Len(items) |-> MajorDesc(items[k])]

\* concatenation of a sequence of sequences
RECURSIVE Flatten(_)
Flatten(seqs) == IF Len(seqs) = 0 THEN <<>> ELSE seqs[1] \o Flatten(Tail(seqs))

\* the mutant of the loops that keeps the courses the student has taken
ItemCoursesUnfiltered(item, all_student_codes) ==
    LET smc_options == Get(item, "smc_options", <<>>)
    IN  Flatten([g \in 1..Len(smc_options) |->
                    [c \in 1..Len(smc_options[g]) |->
                        Get(smc_options[g][c], "code", <<>>)]])

\* the loops over the option groups of an item and the courses of a group:
\* the courses the student has not taken, in the order the loops meet them
ItemCourses(item, all_student_codes) ==
    LET smc_options == Get(item, "smc_options", <<>>)
        codes == Flatten([g \in 1..Len(smc_options) |->
                             [c \in 1..Len(smc_options[g]) |->
                                 Get(smc_options[g][c], "code", <<>>)]])
    IN  SelectSeq(codes, LAMBDA code : code \notin all_student_codes)

\* the loop over the missing items of one unsatisfied requirement: what is
\* recorded for each course met, in order
RequirementVisits(req, req_num, all_student_codes) ==
    LET items == ArticulatedMissing(req)
        req_info == [req_id |-> req.requirement_id, req_num |-> req_num,
                     logic |-> req.logic, all_items |-> RequirementItems(req)]
    IN  Flatten([k \in 1..Len(items) |->
                    LET codes == ItemCourses(items[k], all_student_codes)
                    IN  [c \in 1..Len(codes) |->
                            [code |-> codes[c], major_desc |-> MajorDesc(items[k]),
                             req_info |-> req_info]]])

\* the loop over the requirements of the major audit, which passes over the
\* satisfied ones
MajorVisits(requirements, all_student_codes) ==
    Flatten([k \in 1..Len(requirements) |->
                IF requirements[k].is_satisfied THEN <<>>
                ELSE RequirementVisits(requirements[k], k, all_student_codes)])

\* x appended to lst unless lst holds it
AppendNew(lst, x) == IF x \in Range(lst) THEN lst ELSE Append(lst, x)

\* STEP 2: major_course_map, a dict in insertion order
RECURSIVE MajorCourseMapLoop(_, _, _)
MajorCourseMapLoop(visits, i, major_course_map) ==
    IF i > Len(visits) THEN major_course_map
    ELSE LET v == visits[i]
             old == Lookup(major_course_map, v.code,
                           [major_requirements |-> <<>>, requirement_info |-> <<>>])
             new == [major_requirements |-> AppendNew(old.major_requirements, v.major_desc),
                     requirement_info |-> AppendNew(old.requirement_info, v.req_info)]
         IN  MajorCourseMapLoop(visits, i + 1,
                 IF HasKey(major_course_map, v.code)
                 THEN [k \in 1..Len(major_course_map) |->
                          IF major_course_map[k].code = v.code
                          THEN [code |-> v.code, data |-> new]
                          ELSE major_course_map[k]]
                 ELSE Append(major_course_map, [code |-> v.code, data |-> new]))

\* the key of the GE tags of a course for the pattern key
GeAttrsKey(pattern_key) == IF pattern_key = "IGETC" THEN "IGETC" ELSE "Cal_GETC"

\* STEP 3: the missing GE areas a course is tagged for, sorted
CourseGeAreas(lookup, code, pattern_key, missing_ge_areas) ==
    LET ge_attrs == GeAttributes(lookup, code)
        course_ge_areas == Get(ge_attrs, GeAttrsKey(pattern_key), <<>>)
    IN  SortedStrings({ge_area \in missing_ge_areas :
            \E k \in 1..Len(course_ge_areas) :
                \/ course_ge_areas[k] = ge_area
                \/ StartsWith(course_ge_areas[k], ge_area) /\ Len(ge_area) = 1})

\* STEP 4: the CrossReferencedCourse of every course of the map that is
\* tagged for a missing GE area (title, units and prerequisite fields of
\* the master catalog are not carried)
CrossReferenced(folder, major_course_map, year_code, pattern_key, missing_ge_areas) ==
    LET lookup == _build_ge_course_lookup(folder, year_code)
        all == [k \in 1..Len(major_course_map) |->
                   LET data == major_course_map[k].data
                       ge_areas == CourseGeAreas(lookup, major_course_map[k].code,
                                       pattern_key, missing_ge_areas)
                   IN  [code |-> major_course_map[k].code,
                        ge_areas_satisfied |-> ge_areas,
                        major_requirements_satisfied |-> data.major_requirements,
                        requirement_info |-> data.requirement_info,
                        efficiency_score |-> Len(ge_areas) + Len(data.major_requirements)]]
    IN  SelectSeq(all, LAMBDA c : Len(c.ge_areas_satisfied) > 0)

\* [ri for ri in requirement_info if ri.get("logic") == "ONE_OF"]
OneOfReqs(requirement_info) == SelectSeq(requirement_info, LAMBDA ri : ri.logic = "ONE_OF")

\* the key of the group of a course: the id of its first ONE_OF requirement,
\* or f"single_{course.code}", with the sorted GE areas
GroupKey(course) ==
    LET one_of_reqs == OneOfReqs(course.requirement_info)
    IN  IF Len(one_of_reqs) > 0
        THEN [req_id |-> <<one_of_reqs[1].req_id>>, single |-> <<>>,
              ge_areas |-> course.ge_areas_satisfied]
        ELSE [req_id |-> <<>>, single |-> course.code,
              ge_areas |-> course.ge_areas_satisfied]

\* STEP 5: req_based_groups, a dict in insertion order
RECURSIVE GroupLoop(_, _, _)
GroupLoop(cross_referenced, i, req_based_groups) ==
    IF i > Len(cross_referenced) THEN req_based_groups
    ELSE LET course == cross_referenced[i]
             key == GroupKey(course)
         IN  GroupLoop(cross_referenced, i + 1,
                 IF \E k \in 1..Len(req_based_groups) : req_based_groups[k].key = key
                 THEN [k \in 1..Len(req_based_groups) |->
                          IF req_based_groups[k].key = key
                          THEN [key |-> key,
                                courses |-> Append(req_based_groups[k].courses, course)]
                          ELSE req_based_groups[k]]
                 ELSE Append(req_based_groups, [key |-> key, courses |-> <<course>>]))

\* the EfficiencyGroup of a group of courses (without its description)
MakeEfficiencyGroup(group_courses) ==
    LET courses == SortByCode(group_courses)
        first_course == courses[1]
        one_of_reqs == OneOfReqs(first_course.requirement_info)
    IN  [efficiency_score |-> first_course.efficiency_score,
         ge_areas |-> first_course.ge_areas_satisfied,
         major_requirements |-> first_course.major_requirements_satisfied,
         requirement_info |-> first_course.requirement_info,
         courses |-> courses,
         is_or_group |-> Len(one_of_reqs) > 0 /\ Len(courses) > 1]

\* g comes before h under key=lambda g: (-g.efficiency_score, -len(g.courses))
GroupBefore(g, h) ==
    \/ g.efficiency_score > h.efficiency_score
    \/ g.efficiency_score = h.efficiency_score /\ Len(g.courses) > Len(h.courses)

\* efficiency_groups.sort(key=...): a stable sort
RECURSIVE SortGroups(_)
SortGroups(groups) ==
    IF Len(groups) = 0 THEN <<>>
    ELSE LET x == groups[Len(groups)]
             front == SortGroups(SubSeq(groups, 1, Len(groups) - 1))
             k == Cardinality({i \in 1..Len(front) : ~GroupBefore(x, front[i])})
         IN  SubSeq(front, 1, k) \o <<x>> \o SubSeq(front, k + 1, Len(front))

\* cross_reference_ge_and_major: the list of EfficiencyGroup
cross_reference_ge_and_major(folder, ge_audit_result, major_audit_result, student_state, year_code) ==
    IF "error" \in DOMAIN major_audit_result THEN <<>>
    ELSE LET pattern_key == RawGeKey(ge_audit_result)
             all_student_codes == CodeSet(student_state.completed)
                                    \cup CodeSet(student_state.in_progress)
             missing_ge_areas == MissingGeAreasLoop(ge_audit_result.areas, 1)
             major_course_map ==
                 MajorCourseMapLoop(
                     MajorVisits(major_audit_result.requirements, all_student_codes),
                     1, <<>>)
             cross_referenced == CrossReferenced(folder, major_course_map, year_code,
                                                 pattern_key, missing_ge_areas)
             req_based_groups == GroupLoop(cross_referenced, 1, <<>>)
         IN  SortGroups([k \in 1..Len(req_based_groups) |->
                            MakeEfficiencyGroup(req_based_groups[k].courses)])

\* the recommendation engine's call of cross_reference_ge_and_major
CrossReference ==
    /\ rec.pc = "call"
    /\ rec.op = "cross_reference_ge_and_major"
    /\ rec' = [rec EXCEPT !.pc = "done",
                  !.result = cross_reference_ge_and_major(disk.raw_ge,
                                 rec.ge_audit_result, rec.major_audit_result,
                                 rec.student_state, rec.year_code)]
    /\ UNCHANGED <<pat, match, disk, geRules, ge, major, parsed, loader, majorAudit, mt, disc>>

----------------------------------------------------------------------------
(* Claims about cross_reference_ge_and_major                                *)

\* the cross reference has returned
CrossDone == rec.pc = "done" /\ rec.op = "cross_reference_ge_and_major"

\* the codes of the student's completed and in-progress courses
RecStudentCodes == CodeSet(rec.student_state.completed) \cup CodeSet(rec.student_state.in_progress)

\* the GE tags of a course of the student under the pattern of the audit
PatternTags(course) ==
    IF rec.ge_audit_result.pattern_key = "IGETC" THEN course.igetc ELSE course.cal_getc

\* the subareas of the GE rules of the catalog, with their areas
SubareaParents == {<< <<"3", "A">>, <<"3">> >>, << <<"3", "B">>, <<"3">> >>,
                   << <<"6", "A">>, <<"6">> >>}

\* the GE codes the student still misses: the unsatisfied areas, and of
\* these the subareas for which no completed course is tagged
MissingGeCodes ==
    LET areas == rec.ge_audit_result.areas
        open == {areas[k].code : k \in {j \in 1..Len(areas) : ~areas[j].is_satisfied}}
    IN  open \cup {sp[1] : sp \in {x \in SubareaParents :
                      /\ x[2] \in open
                      /\ \A k \in 1..Len(rec.student_state.completed) :
                            x[1] \notin Range(PatternTags(rec.student_state.completed[k]))}}

\* the requirements of the major audit that are not satisfied
OpenRequirements ==
    IF "error" \in DOMAIN rec.major_audit_result THEN {}
    ELSE {r \in Range(rec.major_audit_result.requirements) : ~r.is_satisfied}

\* the course codes of the option groups of an item
OptionCodes(item) ==
    UNION {CodeSet(item.smc_options[g]) : g \in 1..Len(item.smc_options)}

\* the courses of the groups of the result
GroupCourses == UNION {Range(rec.result[g].courses) : g \in 1..Len(rec.result)}

\* C15: every course of every group of the cross reference is one the
\* student has neither completed nor in progress, satisfies at least one GE
\* code and only missing ones, satisfies at least one major requirement
\* item and only missing items of unsatisfied requirements that list the
\* course, and has the efficiency score |GE areas| + |major requirements|;
\* the cross reference of an error major audit is empty
C15_CrossReferencedCoursesQualify ==
    CrossDone =>
        /\ "error" \in DOMAIN rec.major_audit_result => rec.result = <<>>
        /\ \A c \in GroupCourses :
              /\ c.code \notin RecStudentCodes
              /\ Len(c.ge_areas_satisfied) > 0
              /\ Range(c.ge_areas_satisfied) \subseteq MissingGeCodes
              /\ Len(c.major_requirements_satisfied) > 0
              /\ \A desc \in Range(c.major_requirements_satisfied) :
                    \E r \in OpenRequirements :
                        \E item \in Range(r.items.missing) :
                            /\ MajorDesc(item) = desc
                            /\ c.code \in OptionCodes(item)
              /\ c.efficiency_score = Len(c.ge_areas_satisfied)
                                        + Len(c.major_requirements_satisfied)

\* a course that covers two missing GE codes and a missing major item
C15_Witness ==
    /\ CrossDone
    /\ \E c \in GroupCourses :
          /\ c.code = Hist10
          /\ c.ge_areas_satisfied = << <<"3", "B">>, <<"4">> >>
          /\ c.efficiency_score = 3

\* the GE tags the catalog of the year code gives a course under the
\* pattern of the audit
CatalogTags(code) ==
    LET ge_attrs == get_course_ge_attributes(disk.raw_ge, code, rec.year_code)
    IN  IF rec.ge_audit_result.pattern_key = "IGETC" THEN ge_attrs.IGETC
        ELSE ge_attrs.CALGETC

\* the courses that qualify for the cross reference: not taken, tagged for
\* a missing GE code, and listed in an option group of an articulated
\* missing item of an unsatisfied requirement
QualifyingCodes ==
    {code \in UNION {OptionCodes(item) :
                        item \in UNION {Range(r.items.missing) : r \in OpenRequirements}} :
        /\ code \notin RecStudentCodes
        /\ Range(CatalogTags(code)) \cap MissingGeCodes # {}}

\* C16: under IGETC and under Cal-GETC, every qualifying course is in
\* exactly one group of the cross reference
C16_QualifyingCourseInOneGroup ==
    CrossDone =>
        \A code \in QualifyingCodes :
            Cardinality({g \in 1..Len(rec.result) :
                            code \in CodeSet(rec.result[g].courses)}) = 1

\* the requirements of the major the cross reference is asked for, as the
\* articulation file gives them
TargetRequirements ==
    Get(find_major(EmptyDict, disk.majors, rec.university_name, rec.major_name),
        "requirements", <<>>)

\* the requirement of the file with the given id is satisfied once the
\* student completes the course code on top of the completed courses
SatisfiedWith(req_id, code) ==
    \E k \in 1..Len(TargetRequirements) :
        /\ Get(TargetRequirements[k], "id", "unknown") = req_id
        /\ _audit_requirement(TargetRequirements[k],
                              CodeSet(rec.student_state.completed) \cup {code},
                              CodeSet(rec.student_state.in_progress)).is_satisfied

\* C17: the courses of a group flagged is_or_group all come from missing
\* items of one unsatisfied ONE_OF requirement, and completing any one of
\* them alone satisfies that requirement; a course under no ONE_OF
\* requirement is alone in its group, which is not flagged
C17_OrGroupsAreAlternatives ==
    CrossDone =>
        \A g \in 1..Len(rec.result) :
            LET group == rec.result[g]
            IN  /\ group.is_or_group =>
                      \E r \in OpenRequirements :
                          /\ r.logic = "ONE_OF"
                          /\ \A c \in Range(group.courses) :
                                /\ \E item \in Range(r.items.missing) :
                                       c.code \in OptionCodes(item)
                                /\ SatisfiedWith(r.requirement_id, c.code)
                /\ \A c \in Range(group.courses) :
                      Len(OneOfReqs(c.requirement_info)) = 0
                          => Len(group.courses) = 1 /\ ~group.is_or_group

----------------------------------------------------------------------------
(* MultiTargetEngine.analyze_targets                                        *)

\* str.split(): the words of s between blanks
RECURSIVE SplitWords(_)
SplitWords(s) ==
    LET t == Strip(s)
        i == Find(t, <<" ">>)
    IN  IF Len(t) = 0 THEN <<>>
        ELSE IF i = 0 THEN <<t>>
        ELSE <<SubSeq(t, 1, i - 1)>> \o SplitWords(SubSeq(t, i + 1, Len(t)))

\* lst[-2:]
LastTwo(lst) == SubSeq(lst, IF Len(lst) > 2 THEN Len(lst) - 1 ELSE 1, Len(lst))

\* TargetDefinition.__post_init__: the initials of the last two words of
\* the university, "_", and the first three characters of the major in
\* upper case
AutoTargetId(university, major_name) ==
    LET words == LastTwo(SplitWords(university))
        uni_short == [k \in 1..Len(words) |-> words[k][1]]
        major_short == Upper(Prefix(major_name, 3))
    IN  uni_short \o <<"_">> \o major_short

\* a TargetDefinition built without a target_id
TargetDefinition(university, major_name, target_system) ==
    [university |-> university, major |-> major_name, target_system |-> target_system,
     target_id |-> AutoTargetId(university, major_name)]

\* _extract_missing_ge_areas
_extract_missing_ge_areas(ge_audit) ==
    LET areas == Get(ge_audit, "areas", <<>>)
    IN  Flatten([k \in 1..Len(areas) |->
                    IF areas[k].is_satisfied THEN <<>>
                    ELSE IF Contains(areas[k].notes, StrSubareas)
                    THEN MissingSubareas(areas[k].notes)
                    ELSE <<areas[k].code>>])

\* _extract_missing_major_reqs
_extract_missing_major_reqs(major_audit_result) ==
    IF "error" \in DOMAIN major_audit_result THEN <<>>
    ELSE LET reqs == Get(major_audit_result, "requirements", <<>>)
         IN  Flatten([k \in 1..Len(reqs) |->
                         IF reqs[k].is_satisfied THEN <<>>
                         ELSE LET missing == Get(reqs[k].items, "missing", <<>>)
                              IN  [j \in 1..Len(missing) |-> MajorDesc(missing[j])]])

\* the TargetAuditResult of a target, from its GE audit and its major audit
TargetAuditResult(files, target, ge_audit, major_audit_result, student_state, year_code) ==
    [target |-> target,
     ge_pattern |-> Get(ge_audit, "pattern_key", "IGETC"),
     ge_audit |-> ge_audit,
     major_audit |-> major_audit_result,
     cross_reference |-> cross_reference_ge_and_major(files.raw_ge, ge_audit,
                             major_audit_result, student_state, year_code),
     missing_ge_areas |-> _extract_missing_ge_areas(ge_audit),
     missing_major_reqs |-> _extract_missing_major_reqs(major_audit_result)]

\* _audit_single_target: the two audits are run once each and their
\* results go into the TargetAuditResult
_audit_single_target(files, target, student_state, entry_year, entry_term, year_code) ==
    CHOOSE r \in {TargetAuditResult(files, target, ge_audit, major_audit_result,
                                    student_state, year_code) :
                     ge_audit \in {audit(NotLoaded, files.ge_rules, student_state,
                                         entry_year, entry_term,
                                         target.target_system).result},
                     major_audit_result \in {major_audit(EmptyDict, files.majors,
                                                 student_state, target.university,
                                                 target.major)}} : TRUE

\* missing_ge_by_pattern: the missing GE areas of the audits of a pattern
MissingGeByPattern(target_audits) ==
    [pattern \in {target_audits[k].ge_pattern : k \in 1..Len(target_audits)} |->
        UNION {Range(target_audits[k].missing_ge_areas) :
                  k \in {j \in 1..Len(target_audits) :
                            target_audits[j].ge_pattern = pattern}}]

\* the loops over the audits, their unsatisfied requirements, the missing
\* items and the option groups: what is recorded for each course met
TargetVisits(target_audits, all_student_codes) ==
    Flatten([k \in 1..Len(target_audits) |->
        IF "error" \in DOMAIN target_audits[k].major_audit THEN <<>>
        ELSE LET visits == MajorVisits(
                               Get(target_audits[k].major_audit, "requirements", <<>>),
                               all_student_codes)
             IN  [v \in 1..Len(visits) |->
                     [code |-> visits[v].code,
                      target_id |-> target_audits[k].target.target_id,
                      major_desc |-> visits[v].major_desc]]])

\* the elements of lst in order, each once
RECURSIVE Unique(_)
Unique(lst) ==
    IF Len(lst) = 0 THEN <<>>
    ELSE LET front == Unique(SubSeq(lst, 1, Len(lst) - 1))
         IN  AppendNew(front, lst[Len(lst)])

\* major_course_map.get(code, {}): the requirement descriptions by target id
MajorSatisfaction(visits, code) ==
    [target_id \in {visits[v].target_id : v \in {w \in 1..Len(visits) : visits[w].code = code}} |->
        LET mine == SelectSeq(visits, LAMBDA v : v.code = code /\ v.target_id = target_id)
        IN  Unique([k \in 1..Len(mine) |-> mine[k].major_desc])]

\* the calls of get_courses_for_ge_area for the missing areas of the
\* patterns: the result of each call, by pattern and area
GeCourses(cache, folder, year_code, missing_ge_by_pattern) ==
    [pa \in UNION {{<<p, a>> : a \in missing_ge_by_pattern[p]} :
                      p \in DOMAIN missing_ge_by_pattern} |->
        get_courses_for_ge_area(cache, folder, pa[2], year_code, pa[1])]

\* ge_course_map.get(code, {}): the missing areas the course is listed
\* for, by pattern (each list of areas is carried as a set)
GeSatisfaction(courses, missing_ge_by_pattern, code) ==
    LET listed == [p \in DOMAIN missing_ge_by_pattern |->
                      {area \in missing_ge_by_pattern[p] :
                          code \in CodeSet(courses[<<p, area>>].value)}]
    IN  [pattern \in {p \in DOMAIN missing_ge_by_pattern : listed[p] # {}} |->
            listed[pattern]]

\* sum(len(x) for x in d.values()) for lists
RECURSIVE SumLen(_)
SumLen(d) ==
    IF DOMAIN d = {} THEN 0
    ELSE LET k == CHOOSE x \in DOMAIN d : TRUE
         IN  Len(d[k]) + SumLen([y \in DOMAIN d \ {k} |-> d[y]])

\* sum(len(x) for x in d.values()) for the area lists carried as sets
RECURSIVE SumCard(_)
SumCard(d) ==
    IF DOMAIN d = {} THEN 0
    ELSE LET k == CHOOSE x \in DOMAIN d : TRUE
         IN  Cardinality(d[k]) + SumCard([y \in DOMAIN d \ {k} |-> d[y]])

\* the mutant of the comparison that orders by code alone
LessByCode(self, other) == StrLess(self.code, other.code)

\* MultiTargetCourse.__lt__
MultiTargetCourseLess(self, other) ==
    IF self.efficiency_score # other.efficiency_score
    THEN self.efficiency_score > other.efficiency_score
    ELSE IF self.total_targets_helped # other.total_targets_helped
    THEN self.total_targets_helped > other.total_targets_helped
    ELSE StrLess(self.code, other.code)

\* list.sort() with __lt__: a stable sort
RECURSIVE SortCourses(_)
SortCourses(courses) ==
    IF Len(courses) = 0 THEN <<>>
    ELSE LET x == courses[Len(courses)]
             front == SortCourses(SubSeq(courses, 1, Len(courses) - 1))
             k == Cardinality({i \in 1..Len(front) : ~MultiTargetCourseLess(x, front[i])})
         IN  SubSeq(front, 1, k) \o <<x>> \o SubSeq(front, k + 1, Len(front))

\* the elements of a set in the order the iteration of the set meets them
RECURSIVE SetToSeq(_)
SetToSeq(S) ==
    IF S = {} THEN <<>>
    ELSE LET x == CHOOSE y \in S : TRUE IN <<x>> \o SetToSeq(S \ {x})

\* the MultiTargetCourse of a code (title, units and prerequisite fields of
\* the master catalog and the display breakdown are not carried)
MultiTargetCourse(code, ge_satisfaction, major_satisfaction) ==
    LET total_ge == SumCard(ge_satisfaction)
        total_major == SumLen(major_satisfaction)
    IN  [code |-> code,
         ge_satisfaction |-> ge_satisfaction,
         major_satisfaction |-> major_satisfaction,
         total_ge_areas |-> total_ge,
         total_major_reqs |-> total_major,
         total_targets_helped |-> Cardinality(DOMAIN major_satisfaction),
         efficiency_score |-> total_ge + total_major]

\* _build_unified_course_list: the sorted list, or the FileNotFoundError of
\* get_courses_for_ge_area
_build_unified_course_list(cache, folder, target_audits, student_state, year_code) ==
    LET all_student_codes == CodeSet(student_state.completed)
                               \cup CodeSet(student_state.in_progress)
        missing_ge_by_pattern == MissingGeByPattern(target_audits)
        visits == TargetVisits(target_audits, all_student_codes)
        major_codes == {visits[v].code : v \in 1..Len(visits)}
        courses == GeCourses(cache, folder, year_code, missing_ge_by_pattern)
    IN  IF \E pa \in DOMAIN courses : courses[pa].raised
        THEN [raised |-> TRUE, exc |-> "FileNotFoundError"]
        ELSE LET ge_codes == UNION {CodeSet(courses[pa].value) : pa \in DOMAIN courses}
                                \ all_student_codes
                 all_course_codes == SetToSeq(major_codes \cup ge_codes)
                 built == [k \in 1..Len(all_course_codes) |->
                              MultiTargetCourse(all_course_codes[k],
                                  GeSatisfaction(courses, missing_ge_by_pattern,
                                                 all_course_codes[k]),
                                  MajorSatisfaction(visits, all_course_codes[k]))]
             IN  [raised |-> FALSE,
                  value |-> SortCourses(SelectSeq(built,
                                LAMBDA c : c.efficiency_score # 0))]

\* the mutant of the buckets that takes one target for super-efficient
SuperEfficientFromOne(all_courses) ==
    SelectSeq(all_courses, LAMBDA c : c.total_targets_helped >= 1)

\* the bucket of the courses that help two targets or more
SuperEfficient(all_courses) ==
    SelectSeq(all_courses, LAMBDA c : c.total_targets_helped >= 2)

\* the bucket of the courses that help one target
SingleTarget(all_courses) ==
    SelectSeq(all_courses, LAMBDA c : ~(c.total_targets_helped >= 2)
                                        /\ c.total_targets_helped = 1)

\* the bucket of the courses that help no target and cover a GE area
GeOnly(all_courses) ==
    SelectSeq(all_courses, LAMBDA c : /\ ~(c.total_targets_helped >= 2)
                                      /\ ~(c.total_targets_helped = 1)
                                      /\ c.total_ge_areas > 0)

\* STEP 3 and STEP 4 of analyze_targets: the MultiTargetAnalysis of the
\* audits and the unified list, or the exception the list ended with
MultiTargetAnalysis(targets, target_audits, unified) ==
    IF unified.raised THEN unified
    ELSE [raised |-> FALSE,
          value |->
             [targets |-> targets,
              target_audits |-> target_audits,
              all_courses |-> unified.value,
              super_efficient |-> SuperEfficient(unified.value),
              single_target_efficient |-> SingleTarget(unified.value),
              ge_only |-> GeOnly(unified.value),
              total_missing_ge_areas |->
                  Cardinality(UNION {Range(target_audits[k].missing_ge_areas) :
                                        k \in 1..Len(target_audits)}),
              total_missing_major_reqs |->
                  SumLen([k \in 1..Len(target_audits) |->
                             target_audits[k].missing_major_reqs]),
              unique_ge_patterns |->
                  {target_audits[k].ge_pattern : k \in 1..Len(target_audits)}]]

\* STEP 2 of analyze_targets on the audits of STEP 1
AnalysisOf(cache, files, targets, target_audits, student_state, year_code) ==
    CHOOSE r \in {MultiTargetAnalysis(targets, target_audits, unified) :
                     unified \in {_build_unified_course_list(cache, files.raw_ge,
                                      target_audits, student_state, year_code)}} : TRUE

\* analyze_targets: the MultiTargetAnalysis, or the exception; every target
\* is audited once
analyze_targets(cache, files, targets, student_state, entry_year, entry_term, year_code) ==
    CHOOSE r \in {AnalysisOf(cache, files, targets, target_audits, student_state, year_code) :
                     target_audits \in {[k \in 1..Len(targets) |->
                                            _audit_single_target(files, targets[k],
                                                student_state, entry_year, entry_term,
                                                year_code)]}} : TRUE

\* the multi-target engine's call of analyze_targets
AnalyzeTargets ==
    /\ mt.pc = "call"
    /\ mt' = [mt EXCEPT !.pc = "done",
                 !.result = analyze_targets(EmptyDict, disk, mt.targets, mt.student_state,
                                            mt.entry_year, mt.entry_term, mt.year_code)]
    /\ UNCHANGED <<pat, match, disk, geRules, ge, major, parsed, loader, majorAudit, rec, disc>>

----------------------------------------------------------------------------
(* Claims about analyze_targets                                             *)

\* the analysis has returned a MultiTargetAnalysis
AnalysisDone == mt.pc = "done" /\ ~mt.result.raised

\* the number of target ids the major_satisfaction of a course spans
TargetsSpanned(c) == Cardinality(DOMAIN c.major_satisfaction)

\* the course is listed for a missing GE area of some pattern
CoversGe(c) == \E p \in DOMAIN c.ge_satisfaction : c.ge_satisfaction[p] # {}

\* C18: the buckets super_efficient, single_target_efficient and ge_only are
\* pairwise disjoint and together hold every course of all_courses; a course
\* is super-efficient iff its major_satisfaction spans two target ids or
\* more, single-target iff it spans exactly one, and GE-only iff it spans
\* none and covers a missing GE area
C18_BucketsPartitionAllCourses ==
    AnalysisDone =>
        LET v == mt.result.value
            super == Range(v.super_efficient)
            single == Range(v.single_target_efficient)
            ge_only == Range(v.ge_only)
        IN  /\ CodeSet(v.super_efficient) \cap CodeSet(v.single_target_efficient) = {}
            /\ CodeSet(v.super_efficient) \cap CodeSet(v.ge_only) = {}
            /\ CodeSet(v.single_target_efficient) \cap CodeSet(v.ge_only) = {}
            /\ super \cup single \cup ge_only = Range(v.all_courses)
            /\ \A c \in Range(v.all_courses) :
                  /\ c \in super <=> TargetsSpanned(c) >= 2
                  /\ c \in single <=> TargetsSpanned(c) = 1
                  /\ c \in ge_only <=> TargetsSpanned(c) = 0 /\ CoversGe(c)

\* an analysis of two targets with a course in each bucket: ECON 1 helps
\* both targets, ECON 2 one, and ART 1 is for GE only
C18_Witness ==
    /\ AnalysisDone
    /\ Len(mt.targets) = 2
    /\ Econ1 \in CodeSet(mt.result.value.super_efficient)
    /\ Econ2 \in CodeSet(mt.result.value.single_target_efficient)
    /\ Art1 \in CodeSet(mt.result.value.ge_only)

\* C19: two targets of an analysis that differ in university or in major
\* have different target ids, and a course listed in missing articulated
\* items of two different targets has total_targets_helped of two or more
\* and is in super_efficient
C19_TargetsHaveDistinctIds ==
    AnalysisDone =>
        LET v == mt.result.value
            \* the targets in whose missing articulated items the code is listed
            helped(code) ==
                {k \in 1..Len(v.target_audits) :
                    /\ "error" \notin DOMAIN v.target_audits[k].major_audit
                    /\ \E r \in Range(v.target_audits[k].major_audit.requirements) :
                          /\ ~r.is_satisfied
                          /\ \E item \in Range(r.items.missing) :
                                code \in OptionCodes(item)}
        IN  /\ \A i, j \in 1..Len(mt.targets) :
                  (\/ mt.targets[i].university # mt.targets[j].university
                   \/ mt.targets[i].major # mt.targets[j].major)
                     => mt.targets[i].target_id # mt.targets[j].target_id
            /\ \A c \in Range(v.all_courses) :
                  Cardinality(helped(c.code)) >= 2
                     => /\ c.total_targets_helped >= 2
                        /\ c \in Range(v.super_efficient)

\* a comes before b in the ordering: efficiency_score descending, then
\* total_targets_helped descending, then code ascending
OrderedBefore(a, b) ==
    \/ a.efficiency_score > b.efficiency_score
    \/ /\ a.efficiency_score = b.efficiency_score
       /\ a.total_targets_helped > b.total_targets_helped
    \/ /\ a.efficiency_score = b.efficiency_score
       /\ a.total_targets_helped = b.total_targets_helped
       /\ StrLess(a.code, b.code)

\* the list is in the ordering, has no code twice and none of the student's
WellOrdered(courses) ==
    /\ \A i, j \in 1..Len(courses) : i < j => OrderedBefore(courses[i], courses[j])
    /\ CodeSet(courses) \cap (CodeSet(mt.student_state.completed)
                               \cup CodeSet(mt.student_state.in_progress)) = {}

----------------------------------------------------------------------------
(***************************************************************************)
(* MajorDiscoveryEngine._check_requirement                                 *)
(***************************************************************************)

\* the loop over smc_options of _check_requirement, from option group i on;
\* st holds item_completed and item_pending; the first fully completed group
\* breaks
RECURSIVE CheckOptionLoop(_, _, _, _, _)
CheckOptionLoop(smc_options, i, st, completed_codes, pending_codes) ==
    IF i > Len(smc_options) THEN st
    ELSE LET group_codes == GroupCodes(smc_options[i])
         IN  IF AllCompleted(group_codes, completed_codes)
             THEN [st EXCEPT !.item_completed = TRUE]
             ELSE IF /\ AllCompletedOrPending(group_codes, completed_codes, pending_codes)
                     /\ AnyPending(group_codes, pending_codes)
                  THEN CheckOptionLoop(smc_options, i + 1,
                                       [st EXCEPT !.item_pending = TRUE],
                                       completed_codes, pending_codes)
                  ELSE CheckOptionLoop(smc_options, i + 1, st,
                                       completed_codes, pending_codes)

\* the code kept for display of an item the student has nothing for: the first
\* course of the first option group, else the university course; <<code>>
FirstMissingOf(item) ==
    LET smc_options == Get(item, "smc_options", <<>>)
    IN  IF Len(smc_options) > 0
        THEN <<Get(smc_options[1][1], "code", "")>>
        ELSE <<Get(Get(item, "university_course", EmptyDict), "code", "Unknown")>>

\* the body of the loop over items: acc holds satisfied_items, pending_items
\* and first_missing; an item whose type is not COURSE is passed over
CheckItem(acc, item, completed_codes, pending_codes) ==
    IF Get(item, "type", "") # "COURSE" THEN acc
    ELSE LET found == CheckOptionLoop(Get(item, "smc_options", <<>>), 1,
                          [item_completed |-> FALSE, item_pending |-> FALSE],
                          completed_codes, pending_codes)
         IN  IF found.item_completed
             THEN [acc EXCEPT !.satisfied_items = @ + 1]
             ELSE IF found.item_pending
             THEN [acc EXCEPT !.pending_items = @ + 1]
             ELSE IF acc.first_missing = None
             THEN [acc EXCEPT !.first_missing = FirstMissingOf(item)]
             ELSE acc

\* for item in items
RECURSIVE CheckItemLoop(_, _, _, _, _)
CheckItemLoop(items, i, acc, completed_codes, pending_codes) ==
    IF i > Len(items) THEN acc
    ELSE CheckItemLoop(items, i + 1,
                       CheckItem(acc, items[i], completed_codes, pending_codes),
                       completed_codes, pending_codes)

\* rule.get("min_count") or 1: None and 0 both give 1
MinCountOrOne(rule) ==
    LET min_count == Get(rule, "min_count", None)
    IN  IF min_count = None \/ min_count = <<0>> THEN 1 ELSE min_count[1]

\* the if / elif chain of _check_requirement over the logic kind
CheckStatus(logic, min_count, items, acc) ==
    IF logic = "ONE_OF"
    THEN [is_satisfied |-> acc.satisfied_items >= 1,
          is_pending |-> ~(acc.satisfied_items >= 1) /\ acc.pending_items >= 1]
    ELSE IF logic \in {"CHOOSE_N", "N_OF", "AT_LEAST_N"}
    THEN [is_satisfied |-> acc.satisfied_items >= min_count,
          is_pending |-> /\ ~(acc.satisfied_items >= min_count)
                         /\ acc.satisfied_items + acc.pending_items >= min_count]
    ELSE [is_satisfied |-> acc.satisfied_items = Len(items),
          is_pending |-> /\ acc.satisfied_items + acc.pending_items = Len(items)
                         /\ acc.pending_items > 0]

_check_requirement(items, logic, rule, completed_codes, pending_codes) ==
    LET acc == CheckItemLoop(items, 1,
                   [satisfied_items |-> 0, pending_items |-> 0, first_missing |-> None],
                   completed_codes, pending_codes)
        status == CheckStatus(logic, MinCountOrOne(rule), items, acc)
    IN  [satisfied |-> status.is_satisfied,
         in_progress |-> status.is_pending /\ ~status.is_satisfied,
         missing_course |-> IF ~status.is_satisfied /\ ~status.is_pending
                            THEN acc.first_missing ELSE None]

\* the requirement groups _score_major passes on: those with an item
CheckedRequirements == {r \in Requirements : Len(r.items) > 0}

\* MajorDiscoveryEngine._check_requirement as _score_major calls it
CheckRequirement ==
    /\ disc.pc = "call" /\ disc.op = "_check_requirement"
    /\ disc' = [disc EXCEPT
          !.pc = "done",
          !.result = _check_requirement(Get(disc.req, "items", <<>>),
                         Get(Get(disc.req, "rule", EmptyDict), "logic", "ALL_OF"),
                         Get(disc.req, "rule", EmptyDict),
                         disc.completed_codes, disc.pending_codes)]
    /\ UNCHANGED <<pat, match, disk, geRules, ge, major, parsed, loader, majorAudit, rec, mt>>

(***************************************************************************)
(* Claims about _check_requirement                                         *)
(***************************************************************************)

\* the class of a requirement group in the discovery: satisfied, in progress
\* or missing
CheckClass(status) ==
    IF status.satisfied THEN "satisfied"
    ELSE IF status.in_progress THEN "in_progress" ELSE "missing"

\* the class of a requirement group in the major audit
AuditClass(result) ==
    IF result.is_satisfied THEN "satisfied"
    ELSE IF result.is_pending THEN "in_progress" ELSE "missing"

\* C21: for every requirement group with an item and every pair of code
\* sets, _check_requirement puts the group in the class (satisfied, in
\* progress, missing) that _audit_requirement gives for the same group and
\* sets.
C21_DiscoveryAgreesWithAudit ==
    (disc.pc = "done" /\ disc.op = "_check_requirement") =>
        CheckClass(disc.result) =
            AuditClass(_audit_requirement(disc.req, disc.completed_codes,
                                          disc.pending_codes))

----------------------------------------------------------------------------
(***************************************************************************)
(* MajorDiscoveryEngine.discover                                           *)
(***************************************************************************)

\* IN_PROGRESS_WEIGHT = 1.0
IN_PROGRESS_WEIGHT == 1

SUBSTANTIAL_THRESHOLD == 3

\* small[:20]
SmallLimit == 20

\* a float quotient num / den of two small integers, kept as the pair; two
\* such floats compare as the fractions do
Quotient(num, den) == [num |-> num, den |-> den]

FloatLess(x, y) == x.num * y.den < y.num * x.den

FloatEq(x, y) == x.num * y.den = y.num * x.den

\* the body of the loop of _score_major over the requirement groups: acc
\* holds satisfied, in_progress, missing and missing_courses; a group with no
\* item is passed over
ScoreRequirement(acc, req, completed_codes, pending_codes) ==
    LET items == Get(req, "items", <<>>)
        rule == Get(req, "rule", EmptyDict)
        logic == Get(rule, "logic", "ALL_OF")
    IN  IF Len(items) = 0 THEN acc
        ELSE LET req_status == _check_requirement(items, logic, rule,
                                                  completed_codes, pending_codes)
             IN  IF req_status.satisfied
                 THEN [acc EXCEPT !.satisfied = @ + 1]
                 ELSE IF req_status.in_progress
                 THEN [acc EXCEPT !.in_progress = @ + 1]
                 ELSE [acc EXCEPT
                          !.missing = @ + 1,
                          !.missing_courses =
                              IF /\ req_status.missing_course # None
                                 /\ ~Falsy(req_status.missing_course[1])
                              THEN Append(@, req_status.missing_course[1])
                              ELSE @]

\* for req in requirements
RECURSIVE ScoreLoop(_, _, _, _, _)
ScoreLoop(requirements, i, acc, completed_codes, pending_codes) ==
    IF i > Len(requirements) THEN acc
    ELSE ScoreLoop(requirements, i + 1,
                   ScoreRequirement(acc, requirements[i], completed_codes, pending_codes),
                   completed_codes, pending_codes)

\* the mutant of the MajorMatch that gives an in-progress group half credit
MajorMatchHalfCredit(uni_name, major_name, acc) ==
    LET total == acc.satisfied + acc.in_progress + acc.missing
    IN  [university |-> uni_name,
         major |-> major_name,
         total_requirements |-> total,
         satisfied_count |-> acc.satisfied,
         in_progress_count |-> acc.in_progress,
         missing_count |-> acc.missing,
         score |-> Quotient(2 * acc.satisfied + acc.in_progress, 2 * total),
         weighted_score |-> Quotient(2 * acc.satisfied + acc.in_progress, 2),
         missing_courses |-> Prefix(acc.missing_courses, 3)]

\* the MajorMatch of the counts of a major; score and weighted_score are floats
MajorMatch(uni_name, major_name, acc) ==
    LET total == acc.satisfied + acc.in_progress + acc.missing
    IN  [university |-> uni_name,
         major |-> major_name,
         total_requirements |-> total,
         satisfied_count |-> acc.satisfied,
         in_progress_count |-> acc.in_progress,
         missing_count |-> acc.missing,
         score |-> Quotient(acc.satisfied + IN_PROGRESS_WEIGHT * acc.in_progress, total),
         weighted_score |-> Quotient(acc.satisfied + IN_PROGRESS_WEIGHT * acc.in_progress, 1),
         missing_courses |-> Prefix(acc.missing_courses, 3)]

\* _score_major: None, or the MajorMatch m as <<m>>
_score_major(uni_name, major_data, completed_codes, pending_codes) ==
    LET major_name == Get(major_data, "major", "Unknown")
        requirements == Get(major_data, "requirements", <<>>)
        acc == ScoreLoop(requirements, 1,
                         [satisfied |-> 0, in_progress |-> 0, missing |-> 0,
                          missing_courses |-> <<>>],
                         completed_codes, pending_codes)
    IN  IF Len(requirements) = 0 THEN None
        ELSE IF acc.satisfied + acc.in_progress + acc.missing = 0 THEN None
        ELSE <<MajorMatch(uni_name, major_name, acc)>>

\* for major_data in majors: the matches that meet min_satisfied are appended
RECURSIVE MajorScoreLoop(_, _, _, _, _, _, _)
MajorScoreLoop(uni_name, majors, i, all_matches, completed_codes, pending_codes, min_satisfied) ==
    IF i > Len(majors) THEN all_matches
    ELSE LET match_ == _score_major(uni_name, majors[i], completed_codes, pending_codes)
         IN  MajorScoreLoop(uni_name, majors, i + 1,
                 IF match_ # None /\ match_[1].satisfied_count >= min_satisfied
                 THEN Append(all_matches, match_[1]) ELSE all_matches,
                 completed_codes, pending_codes, min_satisfied)

\* for uni_name in universities: a university whose file is absent, or is not
\* a JSON object, ends in an exception and is skipped
RECURSIVE UniversityLoop(_, _, _, _, _, _, _, _)
UniversityLoop(cache, files, universities, i, all_matches, completed_codes, pending_codes, min_satisfied) ==
    IF i > Len(universities) THEN all_matches
    ELSE LET uni_data == load_major_articulation(cache, files, universities[i])
         IN  UniversityLoop(cache, files, universities, i + 1,
                 IF uni_data.raised \/ ~uni_data.value.is_dict THEN all_matches
                 ELSE MajorScoreLoop(universities[i],
                                     Get(uni_data.value.value, "majors", <<>>), 1,
                                     all_matches, completed_codes, pending_codes,
                                     min_satisfied),
                 completed_codes, pending_codes, min_satisfied)

\* the mutant of the sort key that ranks by weighted_score first
KeyLessByWeight(a, b) ==
    \/ FloatLess(a.weighted_score, b.weighted_score)
    \/ /\ FloatEq(a.weighted_score, b.weighted_score)
       /\ FloatLess(a.score, b.score)

\* (a.score, a.weighted_score) < (b.score, b.weighted_score)
KeyLess(a, b) ==
    \/ FloatLess(a.score, b.score)
    \/ /\ FloatEq(a.score, b.score)
       /\ FloatLess(a.weighted_score, b.weighted_score)

\* list.sort(key=..., reverse=True): the sort is stable, so a match goes
\* behind the matches whose key is not less than its own
InsertMatch(sorted, m) ==
    LET before == {k \in 1..Len(sorted) : ~KeyLess(sorted[k], m)}
        n == Cardinality(before)
    IN  SubSeq(sorted, 1, n) \o <<m>> \o SubSeq(sorted, n + 1, Len(sorted))

RECURSIVE SortMatchesFrom(_, _, _)
SortMatchesFrom(matches, i, sorted) ==
    IF i > Len(matches) THEN sorted
    ELSE SortMatchesFrom(matches, i + 1, InsertMatch(sorted, matches[i]))

SortMatches(matches) == SortMatchesFrom(matches, 1, <<>>)

\* the two buckets of the matches
Buckets(all_matches, top_n) ==
    [substantial |->
        Prefix(SortMatches(SelectSeq(all_matches,
                   LAMBDA m : m.total_requirements >= SUBSTANTIAL_THRESHOLD)), top_n),
     small |->
        Prefix(SortMatches(SelectSeq(all_matches,
                   LAMBDA m : m.total_requirements < SUBSTANTIAL_THRESHOLD)), SmallLimit)]

\* discover on the universities in the order the folder lists them
discover(cache, files, universities, completed_courses, in_progress_courses, top_n, min_satisfied) ==
    CHOOSE r \in {Buckets(all_matches, top_n) :
                     all_matches \in {UniversityLoop(cache, files, universities, 1, <<>>,
                                          CodeSet(completed_courses),
                                          CodeSet(in_progress_courses),
                                          min_satisfied)}} : TRUE

\* DataLoader._majors_cache after the universities from position i on are loaded
RECURSIVE MajorsCacheAfterAll(_, _, _, _)
MajorsCacheAfterAll(cache, files, universities, i) ==
    IF i > Len(universities) THEN cache
    ELSE MajorsCacheAfterAll(MajorsCacheAfter(cache, files, universities[i]),
                             files, universities, i + 1)

(***************************************************************************)
(* The articulation files of the discovery and the calls of discover       *)
(***************************************************************************)

\* a requirement group of one item that one SMC course satisfies
SingleCourseGroup(id, logic, code) ==
    [id |-> id, rule |-> [logic |-> logic, min_count |-> None],
     items |-> << CourseItem(<<"U", "N", "I", "V">>, << >>, << Group(<<code>>) >>) >>]

\* Business at Chico: six groups of one course each
ChicoBusiness ==
    [major |-> <<"B", "u", "s", "i", "n", "e", "s", "s">>,
     requirements |-> <<
        SingleCourseGroup("B1", "ALL_OF", Econ1), SingleCourseGroup("B2", "ALL_OF", Econ2),
        SingleCourseGroup("B3", "ALL_OF", Hist10), SingleCourseGroup("B4", "ALL_OF", Art1),
        SingleCourseGroup("B5", "ALL_OF", Span1), SingleCourseGroup("B6", "ALL_OF", Cs20) >>]

\* Design at Chico: three groups, the last asks for one of two courses
ChicoDesign ==
    [major |-> <<"D", "e", "s", "i", "g", "n">>,
     requirements |-> <<
        SingleCourseGroup("D1", "ALL_OF", Art1), SingleCourseGroup("D2", "ALL_OF", Cs20),
        [id |-> "D3", rule |-> [logic |-> "AT_LEAST_N", min_count |-> <<1>>],
         items |-> << CourseItem(<<"D", "E", "S", " ", "1">>, << >>, << Group(<<Span1>>) >>),
                      CourseItem(<<"D", "E", "S", " ", "2">>, << >>, << Group(<<Art1>>) >>) >>] >>]

\* Geography at Chico: three groups, one of them with no item
ChicoGeography ==
    [major |-> <<"G", "e", "o", "g", "r", "a", "p", "h", "y">>,
     requirements |-> <<
        SingleCourseGroup("G1", "ALL_OF", Span1), SingleCourseGroup("G2", "ONE_OF", Hist10),
        [id |-> "G3", rule |-> [logic |-> "ALL_OF", min_count |-> None], items |-> << >>] >>]

\* a major with no requirement group, and a major whose groups have no item
ChicoGeneral == [major |-> <<"G", "e", "n", "e", "r", "a", "l">>, requirements |-> << >>]
ChicoPending ==
    [major |-> <<"P", "e", "n", "d", "i", "n", "g">>,
     requirements |-> << [id |-> "X1", rule |-> [logic |-> "ALL_OF", min_count |-> None],
                          items |-> << >>] >>]

\* the minors of Chico: more of them than the small bucket holds, each of one
\* group that CS 20 satisfies
MinorLetters == <<"a", "b", "c", "d", "e", "f", "g", "h", "i", "j", "k", "l", "m", "n", "o", "p", "q", "r", "s", "t", "u">>

ChicoMinors ==
    [k \in 1..Len(MinorLetters) |->
        [major |-> <<"M", "i", "n", "o", "r", " ">> \o <<MinorLetters[k]>>,
         requirements |-> << SingleCourseGroup("M1", "ALL_OF", Cs20) >>]]

\* the clean_majors folder of the discovery: the files of the major audit and
\* the file of Chico
DiscoveryFolder ==
    [u \in DOMAIN MajorsFolder \cup {CsuChico} |->
        IF u = CsuChico
        THEN [is_dict |-> TRUE,
              value |-> [majors |-> <<ChicoBusiness, ChicoGeneral, ChicoDesign,
                                      ChicoGeography, ChicoPending>> \o ChicoMinors]]
        ELSE MajorsFolder[u]]

\* the orders in which the folder lists its files
FolderOrders ==
    {<<CsuLongBeach, UcLosAngeles, CsuNorthridge, UcDavis, CsuChico>>,
     <<CsuChico, UcDavis, CsuNorthridge, UcLosAngeles, CsuLongBeach>>}

\* top_n: 10 by default, and a caller's 1
TopNs == {1, 10}

\* min_satisfied: 1 by default and from the command line, and a caller's 0
MinSatisfieds == {0, 1}

\* MajorDiscoveryEngine.discover
Discover ==
    /\ disc.pc = "call" /\ disc.op = "discover"
    /\ disc' = [disc EXCEPT
          !.pc = "done",
          !.result = discover(loader.majors_cache, disk.majors, disc.universities,
                              disc.completed_courses, disc.in_progress_courses,
                              disc.top_n, disc.min_satisfied)]
    /\ loader' = [loader EXCEPT !.majors_cache =
                     MajorsCacheAfterAll(@, disk.majors, disc.universities, 1)]
    /\ UNCHANGED <<pat, match, disk, geRules, ge, major, parsed, majorAudit, rec, mt>>

----------------------------------------------------------------------------
(***************************************************************************)
(* Claims about discover                                                   *)
(***************************************************************************)

DiscoverDone == disc.pc = "done" /\ disc.op = "discover"

\* the universities whose file discover can read, and their majors
ReadableUniversities ==
    {u \in Range(disc.universities) : u \in DOMAIN disk.majors /\ disk.majors[u].is_dict}

FileMajors(u) == Get(disk.majors[u].value, "majors", <<>>)

\* the scored majors: the MajorMatch of every major that has one
ScoredMajors ==
    UNION {{s[1] : s \in {_score_major(u, FileMajors(u)[k],
                                       CodeSet(disc.completed_courses),
                                       CodeSet(disc.in_progress_courses)) :
                             k \in 1..Len(FileMajors(u))} \ {None}} :
              u \in ReadableUniversities}

\* the majors of the files that have no requirement group
UnscorableMajors ==
    UNION {{[university |-> u, major |-> FileMajors(u)[k].major] :
               k \in {j \in 1..Len(FileMajors(u)) :
                         Len(Get(FileMajors(u)[j], "requirements", <<>>)) = 0}} :
              u \in ReadableUniversities}

\* match a does not rank above match b: its score is lower, or the scores
\* are equal and its weighted_score is not higher
NotAbove(a, b) ==
    \/ FloatLess(a.score, b.score)
    \/ /\ FloatEq(a.score, b.score)
       /\ ~FloatLess(b.weighted_score, a.weighted_score)

\* a bucket is sorted by score descending, then weighted_score descending
BucketSorted(bucket) ==
    \A i, j \in 1..Len(bucket) : i < j => NotAbove(bucket[j], bucket[i])

\* no major of `majors` is in bucket
Absent(majors, bucket) ==
    \A k \in 1..Len(bucket) :
        [university |-> bucket[k].university, major |-> bucket[k].major] \notin majors

\* C22 as stated: every scored major is in the substantial bucket iff it has
\* 3 or more requirement groups and in the small bucket iff it has fewer;
\* each bucket is sorted by score descending, then weighted_score descending;
\* a major with no requirement group is in neither bucket.
C22_EveryScoredMajorIsBucketed ==
    DiscoverDone =>
        /\ \A m \in ScoredMajors :
              /\ m \in Range(disc.result.substantial) <=> m.total_requirements >= 3
              /\ m \in Range(disc.result.small) <=> m.total_requirements < 3
        /\ BucketSorted(disc.result.substantial)
        /\ BucketSorted(disc.result.small)
        /\ Absent(UnscorableMajors, disc.result.substantial)
        /\ Absent(UnscorableMajors, disc.result.small)

\* the scored majors with at least min_satisfied satisfied groups
KeptMajors == {m \in ScoredMajors : m.satisfied_count >= disc.min_satisfied}

\* bucket holds the best `limit` of the majors `wanted`, or all of them
BestOf(bucket, wanted, limit) ==
    /\ Range(bucket) \subseteq wanted
    /\ Len(bucket) = (IF Cardinality(wanted) < limit THEN Cardinality(wanted) ELSE limit)
    /\ Cardinality(Range(bucket)) = Len(bucket)
    /\ BucketSorted(bucket)
    /\ \A m \in wanted \ Range(bucket) :
          \A k \in 1..Len(bucket) : NotAbove(m, bucket[k])

\* C22, amended: of the scored majors with at least min_satisfied satisfied
\* groups, those with 3 or more counted groups are in the substantial bucket
\* and no other bucket, up to the best top_n of them; those with fewer are
\* in the small bucket only, up to the best 20; each bucket is sorted by
\* score descending, then weighted_score descending; a major with no
\* requirement group is in neither bucket.
C22_KeptMajorsAreBucketed ==
    DiscoverDone =>
        /\ BestOf(disc.result.substantial,
                  {m \in KeptMajors : m.total_requirements >= 3}, disc.top_n)
        /\ BestOf(disc.result.small,
                  {m \in KeptMajors : m.total_requirements < 3}, 20)
        /\ Absent(UnscorableMajors, disc.result.substantial)
        /\ Absent(UnscorableMajors, disc.result.small)

\* a major of 6 groups with score 5/6 leads the substantial bucket, a major
\* of one group with score 1 is in the small bucket, a scored major is left
\* out for having no satisfied group, and both buckets are cut
C22_Witness ==
    /\ DiscoverDone
    /\ Len(disc.result.substantial) = 1 /\ disc.top_n = 1
    /\ disc.result.substantial[1].total_requirements = 6
    /\ FloatEq(disc.result.substantial[1].score, Quotient(5, 6))
    /\ \E m \in KeptMajors : m.total_requirements = 3
    /\ Len(disc.result.small) = 20
    /\ \E k \in 1..20 : /\ disc.result.small[k].total_requirements = 1
                        /\ FloatEq(disc.result.small[k].score, Quotient(1, 1))
    /\ ScoredMajors # KeptMajors

----------------------------------------------------------------------------

\* the matches discover returns
ReturnedMatches == Range(disc.result.substantial) \cup Range(disc.result.small)

\* the classes _check_requirement gives the groups of the major of match m
\* that have an item, one per group
GroupClasses(m) ==
    LET majors == FileMajors(m.university)
        major_data == majors[CHOOSE k \in 1..Len(majors) : majors[k].major = m.major]
        requirements == Get(major_data, "requirements", <<>>)
        counted == SelectSeq(requirements, LAMBDA r : Len(Get(r, "items", <<>>)) > 0)
    IN  [k \in 1..Len(counted) |->
            CheckClass(_check_requirement(counted[k].items,
                           Get(counted[k].rule, "logic", "ALL_OF"), counted[k].rule,
                           CodeSet(disc.completed_courses),
                           CodeSet(disc.in_progress_courses)))]

CountClass(classes, class) == Cardinality({k \in 1..Len(classes) : classes[k] = class})

----------------------------------------------------------------------------
(***************************************************************************)
(* Claims about the year overrides of the GE audit                         *)
(***************************************************************************)

\* the pattern of the audited student as the rule file gives it
FilePattern ==
    Get(Get(disk.ge_rules, "systems", EmptyDict),
        determine_ge_pattern(ge.entry_year, ge.entry_term), EmptyDict)

FileOverrides == Get(FilePattern, "year_overrides", <<>>)

\* the year code of the student
GeYearCode == ge.entry_year - 1949

\* the positions of the overrides whose range holds the year code
InRange ==
    {i \in 1..Len(FileOverrides) :
        /\ Get(FileOverrides[i], "year_id_min", 0) <= GeYearCode
        /\ GeYearCode <= Get(FileOverrides[i], "year_id_max", 999)}

\* the areas the first override in range lists, if there is one
AppliedAreas ==
    IF InRange = {} THEN <<>>
    ELSE Get(FileOverrides[CHOOSE i \in InRange : \A j \in InRange : i <= j],
             "areas", <<>>)

\* what the override areas `applied` say about an area: the entries for its code
AppliedFor(applied, area_code) ==
    {applied[k].data : k \in {j \in 1..Len(applied) : applied[j].code = area_code}}

\* the area is flagged disabled by the applied override
DisabledByOverride(applied, area_code) ==
    \E o \in AppliedFor(applied, area_code) : Get(o, "disabled", FALSE)

\* the definition of an area under the applied override: its per_target block
\* is the override's when the override has one
EffectiveArea(applied, area) ==
    IF \E o \in AppliedFor(applied, area.code) : "per_target" \in DOMAIN o
    THEN [f \in DOMAIN area.data \cup {"per_target"} |->
             IF f = "per_target"
             THEN (CHOOSE o \in AppliedFor(applied, area.code) :
                      "per_target" \in DOMAIN o).per_target
             ELSE area.data[f]]
    ELSE area.data

\* the audit of an area of the pattern pattern_key with the definition area_data
ExpectedArea(pattern_key, area_code, area_data) ==
    _audit_area_v2(area_code, area_data,
                   ge.student_state.completed, ge.student_state.in_progress,
                   IF pattern_key = "IGETC" THEN "igetc" ELSE "cal_getc",
                   Upper(ge.target_system), GeYearCode)

\* the areas the audit is expected to report, in the order of the file
ExpectedAreas(applied, pattern_key, areas) ==
    Flatten([k \in 1..Len(areas) |->
                IF DisabledByOverride(applied, areas[k].code) THEN <<>>
                ELSE <<ExpectedArea(pattern_key, areas[k].code,
                                    EffectiveArea(applied, areas[k]))>>])

----------------------------------------------------------------------------
(***************************************************************************)
(* Claims about the areas of the GE audit                                  *)
(***************************************************************************)

\* the audit of the student's completed courses alone, on a fresh rule tree
CompletedOnlyResult ==
    audit(NotLoaded, disk.ge_rules,
          [completed |-> ge.student_state.completed, in_progress |-> <<>>],
          ge.entry_year, ge.entry_term, ge.target_system).result

\* an audit result without the pending courses of its areas
WithoutPending(result) ==
    [result EXCEPT !.areas = [k \in 1..Len(result.areas) |->
                                 [result.areas[k] EXCEPT !.pending_courses = <<>>]]]

\* C25: is_satisfied of every area and overall_satisfied depend on the
\* completed courses only: the audit of a student equals, but for the
\* pending_courses of its areas, the audit of the same completed courses with
\* no in-progress course, so two students with the same completed list get
\* the same is_satisfied in every area.
C25_InProgressOnlyChangesPending ==
    ge.pc = "done" => WithoutPending(ge.result) = CompletedOnlyResult

\* an in-progress course is listed as pending in a simple area and in an
\* area with subareas, and neither area is satisfied
C25_Witness ==
    /\ ge.pc = "done"
    /\ \E k \in 1..Len(ge.result.areas) :
          /\ ge.result.areas[k].code = <<"5">>
          /\ Len(ge.result.areas[k].pending_courses) > 0
          /\ ~ge.result.areas[k].is_satisfied
    /\ \E k \in 1..Len(ge.result.areas) :
          /\ ge.result.areas[k].code = <<"2">>
          /\ Len(ge.result.areas[k].pending_courses) >= ge.result.areas[k].required_courses
          /\ ~ge.result.areas[k].is_satisfied

----------------------------------------------------------------------------

\* the GE attribute of the audited student's pattern
GeAttrKey ==
    IF determine_ge_pattern(ge.entry_year, ge.entry_term) = "IGETC"
    THEN "igetc" ELSE "cal_getc"

\* the requirement block of an area definition for the audited target
TargetReqs(area_data) ==
    Get(Get(area_data, "per_target", EmptyDict), Upper(ge.target_system), EmptyDict)

\* the area definition has subareas to audit
HasSubareas(area_data) ==
    /\ ~("required" \in DOMAIN TargetReqs(area_data) /\ ~TargetReqs(area_data).required)
    /\ \/ Len(Get(TargetReqs(area_data), "required_subareas", <<>>)) > 0
       \/ Len(Get(area_data, "subareas", <<>>)) > 0

\* the subareas that are checked: those of require_subareas, else those of
\* require_one_each_from, else the required subareas, else all of them
CheckedSubareas(area_data) ==
    LET constraints == Get(TargetReqs(area_data), "constraints", EmptyDict)
        subareas == Get(area_data, "subareas", <<>>)
    IN  IF Len(Get(constraints, "require_subareas", <<>>)) > 0
        THEN Range(constraints.require_subareas)
        ELSE IF Len(Get(constraints, "require_one_each_from", <<>>)) > 0
        THEN Range(constraints.require_one_each_from)
        ELSE IF Len(Get(TargetReqs(area_data), "required_subareas", <<>>)) > 0
        THEN Range(TargetReqs(area_data).required_subareas)
        ELSE {subareas[k].code : k \in 1..Len(subareas)}

\* the student's completed courses that match a GE code
CompletedFor(code) ==
    {k \in 1..Len(ge.student_state.completed) :
        _course_matches_area(ge.student_state.completed[k], code, GeAttrKey)}

\* the min_courses of a subarea of the area definition
SubareaMin(area_data, sub_code) ==
    LET subareas == Get(area_data, "subareas", <<>>)
        found == {k \in 1..Len(subareas) : subareas[k].code = sub_code}
    IN  IF found = {} THEN 1
        ELSE Get(subareas[CHOOSE k \in found : TRUE].data, "min_courses", 1)

\* the completed courses that count for the area: those matching a checked
\* subarea, each once
AreaCourses(area_data) ==
    SelectSeq(ge.student_state.completed,
              LAMBDA c : \E sc \in CheckedSubareas(area_data) :
                             _course_matches_area(c, sc, GeAttrKey))

\* the rule of an area with subareas
SubareaRule(area_data) ==
    /\ \A sc \in CheckedSubareas(area_data) :
          Cardinality(CompletedFor(sc)) >= SubareaMin(area_data, sc)
    /\ Get(Get(TargetReqs(area_data), "constraints", EmptyDict),
           "require_at_least_one_lab", FALSE) => CompletedFor(<<"5", "C">>) # {}
    /\ Len(AreaCourses(area_data)) >= Get(TargetReqs(area_data), "min_courses", 1)
    /\ SumUnits(AreaCourses(area_data))
           >= Get(TargetReqs(area_data), "min_units_semester", 3)

\* the rule holds of the audited area `result` whose definition is area_data
SubareaRuleHolds(result, area_data) ==
    HasSubareas(area_data) =>
        /\ result.is_satisfied <=> SubareaRule(area_data)
        /\ CodeSet(result.completed_courses) = CodeSet(AreaCourses(area_data))
        /\ Len(result.completed_courses) = Len(AreaCourses(area_data))

\* C26: an area with subareas is satisfied iff every checked subarea has its
\* own min_courses completed matching courses, the lab constraint, when set,
\* is met by a completed course of the lab subarea, and the completed courses
\* of the checked subareas, each counted once, are at least min_courses and
\* total at least min_units; completed_courses lists each such course once.
C26_SubareaAreaRule ==
    ge.pc = "done" =>
        \E applied \in {AppliedAreas} :
        \E areas \in {Get(FilePattern, "areas", <<>>)} :
            \A k \in 1..Len(ge.result.areas) :
                \A j \in 1..Len(areas) :
                    areas[j].code = ge.result.areas[k].code =>
                        \E area_data \in {EffectiveArea(applied, areas[j])} :
                            SubareaRuleHolds(ge.result.areas[k], area_data)

\* the science area checks 5B and 5C and asks for 3 courses; the student's
\* two science courses give three matches, one course counting for both
\* subareas; the area lists the two courses and is not satisfied
C26_Witness ==
    /\ ge.pc = "done"
    /\ disk.ge_rules = GeRulesFileB
    /\ ge.target_system = <<"u", "c">>
    /\ \E k \in 1..Len(ge.result.areas) :
          /\ ge.result.areas[k].code = <<"5">>
          /\ ge.result.areas[k].required_courses = 3
          /\ Len(ge.result.areas[k].completed_courses) = 2
          /\ Cardinality(CompletedFor(<<"5", "B">>))
                 + Cardinality(CompletedFor(<<"5", "C">>)) = 3
          /\ ~ge.result.areas[k].is_satisfied
----------------------------------------------------------------------------
(* Claims about the missing GE areas of a target                           *)

\* Arts and Humanities as IGETC states it: three courses, with one of them
\* at least from each of the subareas 3A and 3B
HumanitiesArea ==
    [code |-> <<"3">>, data |->
        [name |-> <<"A", "r", "t", "s", " ", "a", "n", "d", " ", "H", "u", "m">>,
         per_target |-> PerTarget(
            [min_courses |-> 3, min_units_semester |-> 9,
             required_subareas |-> << <<"3", "A">>, <<"3", "B">> >>],
            [min_courses |-> 3, min_units_semester |-> 9,
             required_subareas |-> << <<"3", "A">>, <<"3", "B">> >>]),
         subareas |-> ArtsSubareas]]

\* the rule file of the catalog with the area 3 of three courses
HumanitiesGeRules ==
    [systems |->
        [IGETC |-> [pattern_name |-> "IGETC for UC and CSU",
                    areas |-> <<HumanitiesArea, SocialArea, LanguageArea>>],
         CalGETC |-> [pattern_name |-> "Cal-GETC",
                      areas |-> <<HumanitiesArea, SocialArea>>]]]

\* the area or one of its subareas is among the missing codes
ContributesTo(missing, area) ==
    \E k \in 1..Len(missing) :
        \/ missing[k] = area.code
        \/ Len(missing[k]) > Len(area.code)
             /\ SubSeq(missing[k], 1, Len(area.code)) = area.code

\* C27: every GE area whose is_satisfied is false contributes its own code or
\* the code of one of its subareas to the missing_ge_areas of the target, and
\* a GE audit with overall_satisfied false leaves missing_ge_areas non-empty
C27_UnsatisfiedAreaIsMissing ==
    (mt.pc = "done" /\ ~mt.result.raised) =>
        \A k \in 1..Len(mt.result.value.target_audits) :
            \E ta \in {mt.result.value.target_audits[k]} :
                /\ \A a \in 1..Len(ta.ge_audit.areas) :
                       ~ta.ge_audit.areas[a].is_satisfied =>
                           ContributesTo(ta.missing_ge_areas, ta.ge_audit.areas[a])
                /\ ~ta.ge_audit.overall_satisfied => Len(ta.missing_ge_areas) > 0

----------------------------------------------------------------------------
(* Claims about the efficiency groups                                      *)

\* Trade at Long Beach: one of two economics courses, and a policy course
\* that the first of them also articulates to
LbTrade ==
    [major |-> <<"T", "r", "a", "d", "e">>,
     university |-> EmptyDict,
     requirements |-> <<
        [id |-> "T1", rule |-> [logic |-> "ONE_OF", min_count |-> <<1>>],
         items |-> << CourseItem(<<"E", "C", "O", "N", " ", "1", "0", "1">>, <<"M", "i", "c", "r", "o">>, << Group(<<Econ1>>) >>),
                      CourseItem(<<"E", "C", "O", "N", " ", "1", "0", "2">>, <<"M", "a", "c", "r", "o">>, << Group(<<Econ2>>) >>) >>],
        [id |-> "T2", rule |-> [logic |-> "ALL_OF", min_count |-> None],
         items |-> << CourseItem(<<"E", "C", "O", "N", " ", "3", "0", "0">>, <<"P", "o", "l", "i", "c", "y">>, << Group(<<Econ1>>) >>) >>] >>]

\* the clean_majors folder with the Trade major in the Long Beach file
TradeFolder ==
    [MajorsFolder EXCEPT ![CsuLongBeach] =
        [is_dict |-> TRUE,
         value |-> [meta |-> EmptyDict, majors |-> <<LbEconomics, LbTrade>>]]]

\* C28: every course of a group returned by cross_reference_ge_and_major has
\* the efficiency_score of its group, and the groups are ordered by
\* efficiency_score descending, then by number of courses descending
C28_GroupCoursesShareTheScore ==
    (rec.pc = "done" /\ rec.op = "cross_reference_ge_and_major") =>
        /\ \A g \in 1..Len(rec.result) :
               \A c \in 1..Len(rec.result[g].courses) :
                   rec.result[g].courses[c].efficiency_score
                       = rec.result[g].efficiency_score
        /\ \A g \in 1..Len(rec.result) - 1 :
               \/ rec.result[g].efficiency_score > rec.result[g + 1].efficiency_score
               \/ /\ rec.result[g].efficiency_score = rec.result[g + 1].efficiency_score
                  /\ Len(rec.result[g].courses) >= Len(rec.result[g + 1].courses)

----------------------------------------------------------------------------
(* CourseRecommendationEngine.check_prerequisites                          *)

Cs10 == <<"C", "S", " ", "1", "0">>
Cs30 == <<"C", "S", " ", "3", "0">>
Cs40 == <<"C", "S", " ", "4", "0">>
Cs50 == <<"C", "S", " ", "5", "0">>
Math1 == <<"M", "A", "T", "H", " ", "1">>
Math2 == <<"M", "A", "T", "H", " ", "2">>
Math3 == <<"M", "A", "T", "H", " ", "3">>

\* the prerequisites of the courses as the catalog states them: each is a
\* list of alternative courses and the word that joins them in the file
PrereqAlternatives ==
    (Cs10 :> << [alts |-> <<Math1>>, word |-> <<" ", "o", "r", " ">>] >>)
    @@ (Cs20 :> << [alts |-> <<Cs10>>, word |-> <<" ", "o", "r", " ">>],
                   [alts |-> <<Math2, Math3>>, word |-> <<" ", "o", "r", " ">>] >>)
    @@ (Cs30 :> << [alts |-> <<Cs20>>, word |-> <<" ", "o", "r", " ">>] >>)
    @@ (Cs40 :> << [alts |-> <<Math3, Math2, Math1>>, word |-> <<" ", "O", "R", " ">>] >>)
    @@ (Math3 :> << [alts |-> <<Math1, Math2>>, word |-> <<" ", "o", "r", " ">>] >>)
    @@ (Cs50 :> << [alts |-> <<Math3>>, word |-> <<" ", "o", "r", " ">>],
                   [alts |-> <<Math2>>, word |-> <<" ", "o", "r", " ">>] >>)

\* the text of a prerequisite in smc_dependencies.json: "MATH 2 or MATH 3"
RECURSIVE PrereqText(_, _)
PrereqText(alts, word) ==
    IF Len(alts) = 1 THEN alts[1]
    ELSE alts[1] \o word \o PrereqText(Tail(alts), word)

\* loader.dependencies: the content of smc_dependencies.json
SmcDependencies ==
    [c \in DOMAIN PrereqAlternatives |->
        [prerequisites |->
             [k \in 1..Len(PrereqAlternatives[c]) |->
                 PrereqText(PrereqAlternatives[c][k].alts, PrereqAlternatives[c][k].word)],
         corequisites |-> IF c = Cs20 THEN <<Cs10>> ELSE <<>>]]

\* str.replace(old, new), for a non-empty old
RECURSIVE Replace(_, _, _)
Replace(s, old, new) ==
    LET i == Find(s, old)
    IN  IF i = 0 THEN s
        ELSE SubSeq(s, 1, i - 1) \o new
                 \o Replace(SubSeq(s, i + Len(old), Len(s)), old, new)

\* options_upper: the alternatives of "MATH 20 or MATH 26"
OrOptions(prereq) ==
    LET parts == Split(Replace(Lower(prereq), <<" ", "o", "r", " ">>, <<"|">>), <<"|">>)
    IN  [k \in 1..Len(parts) |-> Upper(Strip(parts[k]))]

\* the loop over prereqs: acc holds prereqs_missing and prereqs_in_progress
RECURSIVE PrereqLoop(_, _, _, _, _)
PrereqLoop(prereqs, i, completed_codes, pending_codes, acc) ==
    IF i > Len(prereqs) THEN acc
    ELSE LET prereq == prereqs[i]
             options_upper == IF ~Contains(Lower(prereq), <<" ", "o", "r", " ">>)
                              THEN <<prereq>>
                              ELSE OrOptions(prereq)
         IN  PrereqLoop(prereqs, i + 1, completed_codes, pending_codes,
                 IF \E k \in 1..Len(options_upper) : options_upper[k] \in completed_codes
                 THEN acc
                 ELSE IF \E k \in 1..Len(options_upper) : options_upper[k] \in pending_codes
                 THEN [acc EXCEPT !.prereqs_in_progress = Append(@, prereq)]
                 ELSE [acc EXCEPT !.prereqs_missing = Append(@, prereq)])

\* the mutant of max_depth that never looks at the second level
MaxDepthOne(deps, prereqs_missing, completed_codes, pending_codes) == 1

\* max_depth: 2 when a missing prerequisite has an entry whose prerequisites
\* hold a text that is neither a completed nor a pending code
MaxDepth(deps, prereqs_missing, completed_codes, pending_codes) ==
    IF \E k \in 1..Len(prereqs_missing) :
          LET missing_deps == Get(Get(deps, prereqs_missing[k], EmptyDict),
                                  "prerequisites", <<>>)
          IN  \E j \in 1..Len(missing_deps) :
                  missing_deps[j] \notin completed_codes
                      /\ missing_deps[j] \notin pending_codes
    THEN 2
    ELSE 1

\* check_prerequisites
check_prerequisites(deps, course_code, completed_codes, pending_codes) ==
    LET course_deps == Get(deps, course_code, EmptyDict)
        found == PrereqLoop(Get(course_deps, "prerequisites", <<>>), 1, completed_codes,
                            pending_codes,
                            [prereqs_missing |-> <<>>, prereqs_in_progress |-> <<>>])
        prereqs_met == Len(found.prereqs_missing) = 0 /\ Len(found.prereqs_in_progress) = 0
    IN  [prereqs_met |-> prereqs_met,
         prereqs_missing |-> found.prereqs_missing,
         prereqs_in_progress |-> found.prereqs_in_progress,
         coreqs |-> Get(course_deps, "corequisites", <<>>),
         advisories |-> Get(course_deps, "advisories", <<>>),
         semesters_away |->
             IF prereqs_met THEN 0
             ELSE IF Len(found.prereqs_missing) = 0 /\ Len(found.prereqs_in_progress) > 0
             THEN 1
             ELSE MaxDepth(deps, found.prereqs_missing, completed_codes, pending_codes)]

\* the recommendation engine's call of check_prerequisites
CheckPrerequisites ==
    /\ rec.pc = "call"
    /\ rec.op = "check_prerequisites"
    /\ rec' = [rec EXCEPT !.pc = "done",
                  !.result = check_prerequisites(rec.dependencies, rec.course_code,
                                 rec.completed_codes, rec.pending_codes)]
    /\ UNCHANGED <<pat, match, disk, geRules, ge, major, parsed, loader, majorAudit, mt, disc>>

----------------------------------------------------------------------------
(* Claims about check_prerequisites                                        *)

\* the prerequisites of the course asked for
AskedPrereqs == Get(PrereqAlternatives, rec.course_code, <<>>)

\* an alternative of the prerequisite is completed
PrereqDone(e) == \E k \in 1..Len(e.alts) : e.alts[k] \in rec.completed_codes

\* no alternative is completed and one is in progress
PrereqPending(e) ==
    ~PrereqDone(e) /\ \E k \in 1..Len(e.alts) : e.alts[k] \in rec.pending_codes

\* the texts of the prerequisites of a list
PrereqTexts(entries) ==
    [k \in 1..Len(entries) |-> PrereqText(entries[k].alts, entries[k].word)]

\* a missing prerequisite that is one course has a prerequisite of which no
\* alternative is completed or in progress
SecondLevelOpen ==
    \E k \in 1..Len(AskedPrereqs) :
        /\ ~PrereqDone(AskedPrereqs[k]) /\ ~PrereqPending(AskedPrereqs[k])
        /\ Len(AskedPrereqs[k].alts) = 1
        /\ \E e \in Range(Get(PrereqAlternatives, AskedPrereqs[k].alts[1], <<>>)) :
               \A j \in 1..Len(e.alts) :
                   e.alts[j] \notin rec.completed_codes \cup rec.pending_codes

\* C29: check_prerequisites returns prereqs_met true iff no prerequisite is
\* missing and none is in progress, an OR-prerequisite being met when an
\* alternative is completed and in progress when none is completed and one
\* is in progress; semesters_away is 0 when prereqs_met, 1 when nothing is
\* missing and something is in progress, 2 when a missing prerequisite has
\* itself a prerequisite neither completed nor in progress, and always one
\* of 0, 1, 2
C29_PrerequisiteStatus ==
    (rec.pc = "done" /\ rec.op = "check_prerequisites") =>
        /\ rec.result.prereqs_met
               <=> (rec.result.prereqs_missing = <<>>
                       /\ rec.result.prereqs_in_progress = <<>>)
        /\ rec.result.prereqs_met
               <=> \A k \in 1..Len(AskedPrereqs) : PrereqDone(AskedPrereqs[k])
        /\ rec.result.prereqs_in_progress
               = PrereqTexts(SelectSeq(AskedPrereqs, PrereqPending))
        /\ rec.result.prereqs_missing
               = PrereqTexts(SelectSeq(AskedPrereqs,
                                 LAMBDA e : ~PrereqDone(e) /\ ~PrereqPending(e)))
        /\ rec.result.prereqs_met => rec.result.semesters_away = 0
        /\ (rec.result.prereqs_missing = <<>> /\ rec.result.prereqs_in_progress # <<>>)
               => rec.result.semesters_away = 1
        /\ SecondLevelOpen => rec.result.semesters_away = 2
        /\ rec.result.semesters_away \in {0, 1, 2}

\* CS 20 is asked for with MATH 3 in progress and nothing else: the
\* OR-prerequisite is in progress, CS 10 is missing and its own prerequisite
\* MATH 1 is open, so the course is two semesters away
C29_Witness ==
    /\ rec.pc = "done" /\ rec.op = "check_prerequisites"
    /\ rec.course_code = Cs20
    /\ rec.pending_codes = {Math3}
    /\ rec.result.prereqs_in_progress = << <<"M", "A", "T", "H", " ", "2", " ", "o", "r", " ", "M", "A", "T", "H", " ", "3">> >>
    /\ rec.result.prereqs_missing = <<Cs10>>
    /\ rec.result.semesters_away = 2

----------------------------------------------------------------------------
(* Claims about the lists of TranscriptParser.parse                        *)

\* the number of entries of a list with the code
CountCode(lst, code) == Cardinality({k \in 1..Len(lst) : lst[k].code = code})

\* C30: after parse, every course code appears exactly once across the lists
\* completed, in_progress and failed, in the list of the status of
\* all_courses[code]; no code is in failed and in another list, and no list
\* holds a code twice
C30_ListsPartitionTheCodes ==
    parsed.pc = "done" =>
        \A c \in DOMAIN parsed.result.all_courses :
            /\ CountCode(parsed.result.completed, c)
                   = (IF parsed.result.all_courses[c].status = "COMPLETED" THEN 1 ELSE 0)
            /\ CountCode(parsed.result.in_progress, c)
                   = (IF parsed.result.all_courses[c].status = "IN_PROGRESS" THEN 1 ELSE 0)
            /\ CountCode(parsed.result.failed, c)
                   = (IF parsed.result.all_courses[c].status = "FAILED" THEN 1 ELSE 0)

----------------------------------------------------------------------------
(* Specifications                                                          *)

\* a component no call is made on
Idle == [pc |-> "idle"]

\* no data file is read
NoFiles == [ge_rules |-> EmptyDict, majors |-> EmptyDict, raw_ge |-> EmptyDict]

\* the loader's caches before any file is read
NoCaches == [majors_cache |-> EmptyDict]

InitPattern ==
    /\ pat \in {[pc |-> "call", entry_year |-> y, entry_term |-> t, result |-> "none"] :
                    y \in EntryYears, t \in EntryTerms}
    /\ match = Idle /\ disk = NoFiles /\ geRules = NotLoaded /\ ge = Idle /\ major = Idle /\ parsed = Idle
    /\ loader = NoCaches /\ majorAudit = Idle /\ rec = Idle /\ mt = Idle /\ disc = Idle

NextPattern == DetermineGePattern
SpecPattern == InitPattern /\ [][NextPattern]_vars

InitMatch ==
    /\ match \in {[pc |-> "call", course |-> c, area_code |-> a, ge_attr_key |-> k,
                     result |-> FALSE] :
                      c \in MatchCourses, a \in GeCodes, k \in GeAttrKeys}
    /\ pat = Idle /\ disk = NoFiles /\ geRules = NotLoaded /\ ge = Idle /\ major = Idle /\ parsed = Idle
    /\ loader = NoCaches /\ majorAudit = Idle /\ rec = Idle /\ mt = Idle /\ disc = Idle

NextMatch == CourseMatchesArea
SpecMatch == InitMatch /\ [][NextMatch]_vars

\* the result slot of a call not yet made
NoResult == [is_satisfied |-> FALSE, is_pending |-> FALSE]

InitMajor ==
    /\ major \in {[pc |-> "call", req |-> r, completed_codes |-> cp[1],
                     pending_codes |-> cp[2], result |-> NoResult, before |-> NoResult] :
                      r \in Requirements, cp \in StudentCodes}
    /\ pat = Idle /\ match = Idle /\ disk = NoFiles /\ geRules = NotLoaded /\ ge = Idle /\ parsed = Idle
    /\ loader = NoCaches /\ majorAudit = Idle /\ rec = Idle /\ mt = Idle /\ disc = Idle

NextMajor == AuditRequirement \/ PendingCoursesComplete
SpecMajor == InitMajor /\ [][NextMajor]_vars

InitParser ==
    /\ parsed \in {[pc |-> "call", transcript_data |-> t,
                      result |-> [completed |-> <<>>, in_progress |-> <<>>,
                                  failed |-> <<>>, all_courses |-> EmptyDict]] :
                       t \in Transcripts}
    /\ pat = Idle /\ match = Idle /\ disk = NoFiles /\ geRules = NotLoaded /\ ge = Idle /\ major = Idle
    /\ loader = NoCaches /\ majorAudit = Idle /\ rec = Idle /\ mt = Idle /\ disc = Idle

NextParser == Parse
SpecParser == InitParser /\ [][NextParser]_vars

InitGE ==
    /\ disk \in {[NoFiles EXCEPT !.ge_rules = f] : f \in GeRulesFiles}
    /\ geRules = NotLoaded
    /\ ge \in {[pc |-> "call", student_state |-> st, entry_year |-> y,
                  entry_term |-> t, target_system |-> ts, result |-> EmptyDict] :
                   st \in StudentStates, y \in GeEntryYears, t \in GeEntryTerms,
                   ts \in TargetSystems}
    /\ pat = Idle /\ match = Idle /\ major = Idle /\ parsed = Idle
    /\ loader = NoCaches /\ majorAudit = Idle /\ rec = Idle /\ mt = Idle /\ disc = Idle

NextGE == GeAudit
SpecGE == InitGE /\ [][NextGE]_vars

\* the files of the catalog
CatalogFiles == [ge_rules |-> CatalogGeRules, majors |-> MajorsFolder, raw_ge |-> RawGeFolder]

InitMajorAudit ==
    /\ disk = CatalogFiles
    /\ loader \in {NoCaches, [NoCaches EXCEPT !.majors_cache = MajorsFolder]}
    /\ majorAudit \in {[pc |-> "call", student_state |-> st, university_name |-> u,
                          major_name |-> m, result |-> EmptyDict] :
                           st \in CatalogStudents(RawGeFolder, 76, {2, 4, 5}),
                           u \in AskedUniversities, m \in AskedMajors}
    /\ pat = Idle /\ match = Idle /\ geRules = NotLoaded /\ ge = Idle
    /\ major = Idle /\ parsed = Idle /\ rec = Idle /\ mt = Idle /\ disc = Idle

NextMajorAudit == MajorAudit
SpecMajorAudit == InitMajorAudit /\ [][NextMajorAudit]_vars


InitRec ==
    /\ disk = CatalogFiles
    /\ loader = NoCaches
    /\ rec \in UNION {
            {[pc |-> "call", op |-> "recommend_ge_courses",
              ge_audit_result |-> CatalogGeAudit(st, y, t),
              student_state |-> st, year_code |-> yc,
              ge_course_cache |-> EmptyDict, result |-> EmptyDict] :
                st \in CatalogStudents(RawGeFolder, yc, 1..5),
                y \in CatalogEntryYears, t \in TargetSystems} :
            yc \in CatalogYearCodes}
    /\ pat = Idle /\ match = Idle /\ geRules = NotLoaded /\ ge = Idle
    /\ major = Idle /\ parsed = Idle /\ majorAudit = Idle /\ mt = Idle /\ disc = Idle

NextRec == RecommendGeCourses
SpecRec == InitRec /\ [][NextRec]_vars


InitGESeq ==
    /\ disk \in {[NoFiles EXCEPT !.ge_rules = f] : f \in GeRulesFiles}
    /\ geRules = NotLoaded
    /\ ge \in {[pc |-> "call", student_state |-> st, entry_year |-> y,
                  entry_term |-> <<"F", "a", "l", "l">>, target_system |-> ts,
                  result |-> EmptyDict, calls |-> 1] :
                   st \in SeqStudents, y \in GeEntryYears, ts \in TargetSystems}
    /\ pat = Idle /\ match = Idle /\ major = Idle /\ parsed = Idle
    /\ loader = NoCaches /\ majorAudit = Idle /\ rec = Idle /\ mt = Idle /\ disc = Idle

NextGESeq == GeAudit \/ GeNextCall
SpecGESeq == InitGESeq /\ [][NextGESeq]_vars


\* the majors a cross reference is asked for: three at Long Beach, one at
\* Los Angeles, and one the catalog does not have
CrossTargets ==
    {<<CsuLongBeach, <<"E", "c", "o", "n", "o", "m", "i", "c", "s">>, <<"c", "s", "u">>>>,
     <<CsuLongBeach, <<"H", "i", "s", "t", "o", "r", "y">>, <<"c", "s", "u">>>>,
     <<CsuLongBeach, <<"E", "c", "o", "n", "o", "m", "i", "c", " ", "P", "o", "l", "i", "c", "y">>, <<"c", "s", "u">>>>,
     <<UcLosAngeles, <<"E", "c", "o", "n", "o", "m", "i", "c", "s">>, <<"u", "c">>>>,
     <<UcLosAngeles, <<"Z", "o", "o", "l", "o", "g", "y">>, <<"u", "c">>>>}

InitCross ==
    /\ disk = CatalogFiles
    /\ loader = NoCaches
    /\ rec \in {[pc |-> "call", op |-> "cross_reference_ge_and_major",
                   ge_audit_result |-> CatalogGeAudit(st, y, tg[3]),
                   major_audit_result |-> major_audit(EmptyDict, MajorsFolder, st, tg[1], tg[2]),
                   student_state |-> st, year_code |-> 76,
                   university_name |-> tg[1], major_name |-> tg[2],
                   result |-> EmptyDict] :
                    st \in CatalogStudents(RawGeFolder, 76, 1..6),
                    y \in CatalogEntryYears, tg \in CrossTargets}
    /\ pat = Idle /\ match = Idle /\ geRules = NotLoaded /\ ge = Idle
    /\ major = Idle /\ parsed = Idle /\ majorAudit = Idle /\ mt = Idle /\ disc = Idle

NextCross == CrossReference
SpecCross == InitCross /\ [][NextCross]_vars


\* the raw_GE folder on a file system that ignores the case of file names:
\* CalGETC_76.json opens CALGETC_76.json
RawGeFolderAnyCase ==
    [key \in DOMAIN RawGeFolder \cup {<<"CalGETC", 76>>} |-> RawGeFile]

\* the targets of an analysis
EconomicsLb == TargetDefinition(CsuLongBeach, <<"E", "c", "o", "n", "o", "m", "i", "c", "s">>, <<"c", "s", "u">>)
PolicyLb == TargetDefinition(CsuLongBeach, <<"E", "c", "o", "n", "o", "m", "i", "c", " ", "P", "o", "l", "i", "c", "y">>, <<"c", "s", "u">>)
HistoryLb == TargetDefinition(CsuLongBeach, <<"H", "i", "s", "t", "o", "r", "y">>, <<"c", "s", "u">>)
EconomicsLa == TargetDefinition(UcLosAngeles, <<"E", "c", "o", "n", "o", "m", "i", "c", "s">>, <<"u", "c">>)
ZoologyLa == TargetDefinition(UcLosAngeles, <<"Z", "o", "o", "l", "o", "g", "y">>, <<"u", "c">>)

\* the lists of targets an analysis is asked for
TargetLists ==
    {<<EconomicsLb>>, <<EconomicsLb, PolicyLb>>, <<EconomicsLb, HistoryLb>>,
     <<EconomicsLb, EconomicsLa>>, <<HistoryLb, EconomicsLa, PolicyLb>>,
     <<ZoologyLa, HistoryLb>>}

InitMulti ==
    /\ disk \in {CatalogFiles, [CatalogFiles EXCEPT !.raw_ge = RawGeFolderAnyCase]}
    /\ loader = NoCaches
    /\ mt \in {[pc |-> "call", targets |-> tl, student_state |-> st,
                  entry_year |-> y, entry_term |-> <<"F", "a", "l", "l">>,
                  year_code |-> 76, result |-> EmptyDict] :
                   tl \in TargetLists,
                   st \in CatalogStudents(RawGeFolder, 76, 2..5),
                   y \in CatalogEntryYears}
    /\ pat = Idle /\ match = Idle /\ geRules = NotLoaded /\ ge = Idle
    /\ major = Idle /\ parsed = Idle /\ majorAudit = Idle /\ rec = Idle /\ disc = Idle

NextMulti == AnalyzeTargets
SpecMulti == InitMulti /\ [][NextMulti]_vars


InitCheck ==
    /\ disc \in {[pc |-> "call", op |-> "_check_requirement", req |-> r,
                    completed_codes |-> cp[1], pending_codes |-> cp[2],
                    result |-> EmptyDict] :
                     r \in CheckedRequirements, cp \in StudentCodes}
    /\ pat = Idle /\ match = Idle /\ disk = NoFiles /\ geRules = NotLoaded /\ ge = Idle
    /\ major = Idle /\ parsed = Idle /\ loader = NoCaches /\ majorAudit = Idle
    /\ rec = Idle /\ mt = Idle

NextCheck == CheckRequirement
SpecCheck == InitCheck /\ [][NextCheck]_vars


InitDiscover ==
    /\ disk = [NoFiles EXCEPT !.majors = DiscoveryFolder]
    /\ loader = NoCaches
    /\ disc \in {[pc |-> "call", op |-> "discover", universities |-> o,
                    completed_courses |-> st.completed,
                    in_progress_courses |-> st.in_progress,
                    top_n |-> n, min_satisfied |-> ms, result |-> EmptyDict] :
                     o \in FolderOrders, st \in CatalogStudents(RawGeFolder, 76, 1..6),
                     n \in TopNs, ms \in MinSatisfieds}
    /\ pat = Idle /\ match = Idle /\ geRules = NotLoaded /\ ge = Idle
    /\ major = Idle /\ parsed = Idle /\ majorAudit = Idle /\ rec = Idle /\ mt = Idle

NextDiscover == Discover
SpecDiscover == InitDiscover /\ [][NextDiscover]_vars


InitMissing ==
    /\ disk = [CatalogFiles EXCEPT !.ge_rules = HumanitiesGeRules]
    /\ loader = NoCaches
    /\ mt \in {[pc |-> "call", targets |-> tl, student_state |-> st,
                  entry_year |-> y, entry_term |-> <<"F", "a", "l", "l">>,
                  year_code |-> 76, result |-> EmptyDict] :
                   tl \in {<<EconomicsLb>>, <<EconomicsLb, EconomicsLa>>},
                   st \in CatalogStudents(RawGeFolder, 76, 1..5),
                   y \in CatalogEntryYears}
    /\ pat = Idle /\ match = Idle /\ geRules = NotLoaded /\ ge = Idle
    /\ major = Idle /\ parsed = Idle /\ majorAudit = Idle /\ rec = Idle /\ disc = Idle

NextMissing == AnalyzeTargets
SpecMissing == InitMissing /\ [][NextMissing]_vars


InitGroups ==
    /\ disk = [CatalogFiles EXCEPT !.majors = TradeFolder]
    /\ loader = NoCaches
    /\ rec \in {[pc |-> "call", op |-> "cross_reference_ge_and_major",
                   ge_audit_result |-> CatalogGeAudit(st, y, <<"c", "s", "u">>),
                   major_audit_result |-> major_audit(EmptyDict, TradeFolder, st,
                                                      CsuLongBeach, name),
                   student_state |-> st, year_code |-> 76,
                   university_name |-> CsuLongBeach, major_name |-> name,
                   result |-> EmptyDict] :
                    st \in CatalogStudents(RawGeFolder, 76, 1..6),
                    y \in CatalogEntryYears,
                    name \in {<<"T", "r", "a", "d", "e">>, <<"E", "c", "o", "n", "o", "m", "i", "c", "s">>}}
    /\ pat = Idle /\ match = Idle /\ geRules = NotLoaded /\ ge = Idle
    /\ major = Idle /\ parsed = Idle /\ majorAudit = Idle /\ mt = Idle /\ disc = Idle

NextGroups == CrossReference
SpecGroups == InitGroups /\ [][NextGroups]_vars


\* the courses a student may hold and the courses asked for
PrereqCourses == {Cs10, Cs20, Math1, Math2, Math3}
AskedCourses == {Cs10, Cs20, Cs30, Cs40, Cs50, Math1, Math3}

InitPrereq ==
    /\ rec \in {[pc |-> "call", op |-> "check_prerequisites",
                   dependencies |-> SmcDependencies, course_code |-> c,
                   completed_codes |-> cp[1], pending_codes |-> cp[2],
                   result |-> EmptyDict] :
                    c \in AskedCourses,
                    cp \in {x \in (SUBSET PrereqCourses) \X (SUBSET PrereqCourses) :
                               x[1] \cap x[2] = {}}}
    /\ disk = NoFiles /\ loader = NoCaches
    /\ pat = Idle /\ match = Idle /\ geRules = NotLoaded /\ ge = Idle
    /\ major = Idle /\ parsed = Idle /\ majorAudit = Idle /\ mt = Idle /\ disc = Idle

NextPrereq == CheckPrerequisites
SpecPrereq == InitPrereq /\ [][NextPrereq]_vars

=============================================================================
